---- MODULE Spec2Model ----
(***************************************************************************)
(* Job orchestration engine of the turbobackend worker: the agent command  *)
(* executor, the agentic loop, and the creation / modification /           *)
(* secret-sync pipelines behind the queue dispatcher.                      *)
(***************************************************************************)
EXTENDS Integers, Sequences, FiniteSets, TLC

VARIABLES
    entry,               \* which function is the outermost caller: "cmd", "loop", "job"
    \* ---- executeAgentCommands ----
    commands,            \* the command list being executed
    results,             \* the result list built so far
    sandboxLog,          \* positions of the commands issued to the sandbox, in issue order
    cmdFailed,           \* per attempted command: did the operation behind it fail
    epc,                 \* "idle" | "run" | "done"
    \* ---- runAgenticLoop ----
    lpc,                 \* "idle" | "while" | "llm" | "exec" | "track" | "returned" | "threw"
    maxIterations,
    iteration,
    conversationHistory,
    filesModified,
    dbQueries,
    totalInputTokens,
    totalOutputTokens,
    costRows,            \* Message-Cost rows (written through the pool, outside any transaction)
    llmCalls,            \* number of callLLMNonStream invocations of this loop
    resultText,          \* result.text of the current iteration's LLM call
    agentResponse,       \* the parsed response of the current iteration
    lastParse,           \* how the last LLM response was parsed: "none" | "direct" | "sanitized" | "fallback"
    sawComplete,         \* the loop left through the taskComplete break
    loopResult,          \* the value returned by runAgenticLoop
    \* ---- the job being processed ----
    jobName,             \* job.name
    shouldRedeploy,      \* request_params.shouldRedeploy of a modification job
    projectDeployments,  \* status of each project_deployments row the project has at delivery
    pc,                  \* position of the job in dispatcher / processor / handler
    stream,              \* messages published on the job's streamId, in order
    tx,                  \* outer transaction: "none" | "open" | "aborted" | "committed" | "rolledback"
    txRows,              \* rows written in the outer transaction, not yet committed
    faults,              \* how many external calls failed on their own, by kind
    authInfo,
    paymentInfo,
    databaseInfo,
    githubPushResult,
    blueprintId,
    containerId,         \* the secret-sync handler holds a sandbox id
    detectorFallbacks,   \* how many intent detectors returned from their catch block
    gitExitCodes,        \* exit codes of the publishing git commands that returned, in order
    committedRows,       \* rows of this job that are committed in the control database
    outcome,             \* what the queue is told: "running" | "resolved" | "rejected"
    released,            \* number of client.release() calls on the pipeline client
    teardowns,           \* number of stopDaytonaContainer calls
    \* ---- one project across the deliveries of its creation job ----
    deliveries,          \* per delivery: position, outer transaction, rows written in it
    clusterDatabase,     \* the database turbobackend_proj_<projectId> exists on the cluster
    githubRepo,          \* turbobackend-<projectId> on the source host: "absent" | "empty" | "pushed"
    controlDb,           \* committed rows with is_active = true, counted per table
    \* ---- one project and the two pathways to its database ----
    projectId,           \* the projectId both pathways are called with
    schemaTables,        \* schemaDesign.tables / queries: the table each statement creates
    dpc,                 \* position inside the pathway being run
    dcalls,              \* pathway calls started so far
    dbName,              \* the database name the running pathway works with
    clusterDatabases,    \* names of the databases that exist on the cluster
    outerTx,             \* the caller's transaction on the control database
    outerRows,           \* rows written in it by the running call, in order
    catalog,             \* committed rows of the control database
    projectTx,           \* the transaction on the project database
    pendingTables,       \* tables created in it, not yet committed
    projectTables,       \* committed tables of the project database
    checkedOut,          \* project-database clients checked out and not released
    openPools,           \* project-database pools created and not ended
    attempts,            \* statements of the list attempted by the running call
    derror,              \* the error the running call has caught, "none" when none
    surfaced,            \* the error message the call threw to its caller
    \* ---- the worker process ----
    proc,                \* position of the process: starting, running, the steps of shutdown, exited
    exitCode,            \* the code passed to process.exit, -1 while the process lives
    production,          \* NODE_ENV === 'production'
    conn,                \* the publisher connection: "connecting" | "ready" | "closed"
    publisherReady,      \* the barrier promise: "pending" | "resolved" | "rejected"
    listeners,           \* the publisher still has its event listeners
    wjobs,               \* per job: queue state, progress messages delivered, terminal message
    closing,             \* components whose close() has been called and has not settled
    closedOrder          \* components in the order their close settled

evars == <<commands, results, sandboxLog, cmdFailed, epc>>
lvars == <<lpc, maxIterations, iteration, conversationHistory, filesModified, dbQueries,
           totalInputTokens, totalOutputTokens, costRows, llmCalls, resultText, agentResponse,
           lastParse, sawComplete, loopResult>>
jfixed == <<jobName, shouldRedeploy, projectDeployments>>
jstep == <<pc, stream, tx, txRows, faults>>
jlocals == <<authInfo, paymentInfo, databaseInfo, githubPushResult, blueprintId, containerId,
             detectorFallbacks, gitExitCodes>>
jend == <<committedRows, outcome, released, teardowns>>
jvars == <<jfixed, jstep, jlocals, jend>>
pvars == <<deliveries, clusterDatabase, githubRepo, controlDb>>
dvars == <<projectId, schemaTables, dpc, dcalls, dbName, clusterDatabases, outerTx, outerRows,
           catalog, projectTx, pendingTables, projectTables, checkedOut, openPools, attempts,
           derror, surfaced>>
wvars == <<proc, exitCode, production, conn, publisherReady, listeners, wjobs, closing, closedOrder>>
vars == <<entry, evars, lvars, jvars, pvars, dvars, wvars>>

\* ------------------------------------------------------------------------
\* Bounds of the model
\* ------------------------------------------------------------------------
MaxCmds == 2           \* longest command list drawn for a stand-alone executor run
MaxCap == 2            \* largest finite maxIterations drawn for a stand-alone loop run
MaxCalls == 3          \* LLM calls explored when maxIterations is Infinity
MaxJobCalls == 2       \* the same, for a loop running inside a job
MaxDeliveries == 2     \* deliveries of the creation job for one projectId
MaxTables == 2         \* longest list of tables / queries handed to a database pathway
MaxPathwayCalls == 2   \* database pathway calls made one after the other for one project
MaxWorkerJobs == 2     \* jobs in the queue of one worker process
MaxProgress == 1       \* progress messages a job of the worker process publishes

Infinity == 1000000    \* stands for the JavaScript value Infinity (above every counter of the model)
NoResult == [success |-> FALSE, iterations |-> 0 - 1, apiBlueprint |-> FALSE, totalCost |-> 0]

BOOL == {TRUE, FALSE}

\* ------------------------------------------------------------------------
\* Agent commands
\* ------------------------------------------------------------------------
RoutePath == <<"server", "api", "users.get.js">>
UtilPath == <<"server", "utils", "db.js">>
BlueprintPath == <<"api-blueprint.json">>
NoPath == <<>>

Cmd(t, p, q) == [type |-> t, path |-> p, queryType |-> q]

CommandTypes == {"execute", "write", "read", "delete", "db_query", "bogus"}

\* one command of every type, for stand-alone executor runs
SampleCommands ==
    {Cmd("execute", NoPath, ""), Cmd("write", RoutePath, ""), Cmd("read", UtilPath, ""),
     Cmd("delete", UtilPath, ""), Cmd("db_query", NoPath, "CREATE TABLE"), Cmd("bogus", NoPath, "")}

RECURSIVE SeqsUpTo(_, _)
SeqsUpTo(S, n) ==
    IF n = 0 THEN {<<>>}
    ELSE LET shorter == SeqsUpTo(S, n - 1)
         IN shorter \cup {Append(s, x) : s \in {t \in shorter : Len(t) = n - 1}, x \in S}

\* the types whose case arm awaits a sandbox service call
SandboxTypes == {"execute", "write", "read", "delete"}

\* ------------------------------------------------------------------------
\* executeAgentCommands (worker/utils/agentCommandExecutor.js)
\* ------------------------------------------------------------------------

\* The sandbox service call behind a command type either resolves or rejects.
\* deleteFileInContainer catches whatever the sandbox raises and resolves with
\* undefined, so a failed delete never rejects.
ServiceRejects(type, sandboxFails) ==
    CASE type \in {"execute", "write", "read"} -> sandboxFails
      [] type = "delete" -> FALSE
      [] type = "db_query" -> FALSE
      [] OTHER -> TRUE          \* default arm: throw new Error("Unknown command type")

\* the entry pushed for one command: the try arm pushes success:true, the catch
\* arm success:false with the error message
ResultEntry(pos, cmd, sandboxFails) ==
    IF ServiceRejects(cmd.type, sandboxFails)
    THEN [pos |-> pos, type |-> cmd.type, success |-> FALSE, error |-> TRUE, stored |-> FALSE]
    ELSE [pos |-> pos, type |-> cmd.type, success |-> TRUE, error |-> FALSE,
          stored |-> (cmd.type = "db_query")]

\* one turn of "for (const cmd of commands)"
ExecuteAgentCommand ==
    /\ epc = "run"
    /\ Len(results) < Len(commands)
    /\ LET pos == Len(results) + 1
           cmd == commands[pos]
       IN \E sandboxFails \in BOOL :
            /\ (cmd.type \notin SandboxTypes) => ~sandboxFails
            /\ results' = Append(results, ResultEntry(pos, cmd, sandboxFails))
            /\ sandboxLog' = IF cmd.type \in SandboxTypes
                             THEN Append(sandboxLog, pos) ELSE sandboxLog
            /\ cmdFailed' = Append(cmdFailed, sandboxFails \/ cmd.type \notin (SandboxTypes \cup {"db_query"}))
    /\ UNCHANGED <<entry, wvars, dvars, pvars, jvars, commands, epc, lvars>>

\* "return results" of a stand-alone executor run
ExecuteAgentCommandsReturn ==
    /\ entry = "cmd"
    /\ epc = "run"
    /\ Len(results) = Len(commands)
    /\ epc' = "done"
    /\ UNCHANGED <<entry, wvars, dvars, pvars, jvars, commands, results, sandboxLog, cmdFailed, lvars>>

\* ------------------------------------------------------------------------
\* LLM response texts, JSON.parse and the control-character sanitizer
\* ------------------------------------------------------------------------
\* A response text is a sequence of lexical units:
\*   "{" "}"          the braces of the response object
\*   "T"              the member  "taskComplete": true
\*   "B"              the member  "apiBlueprint": {...}
\*   "W_route" ...    one element of the "commands" array
\*   "Q"              a double quote opening or closing a string value
\*   "a"              an ordinary character
\*   "LF" "CR" "HT"   raw line feed, carriage return, tab (U+000A, U+000D, U+0009)
\*   "BS" "FF"        raw backspace and form feed (U+0008, U+000C)
\*   "NUL"            any other character of [\x00-\x1F\x7F]
\*   "\\n" ...        the two-character escape sequences
ControlChars == {"LF", "CR", "HT", "BS", "FF", "NUL"}
JsonWhitespace == {"LF", "CR", "HT"}
EscapeSequences == {"\\n", "\\r", "\\t", "\\b", "\\f"}
CommandTokens == {"W_route", "W_util", "W_blueprint", "X", "R", "D", "DBQ_create", "DBQ_alter", "U"}

CmdOf(tok) ==
    CASE tok = "W_route" -> Cmd("write", RoutePath, "")
      [] tok = "W_util" -> Cmd("write", UtilPath, "")
      [] tok = "W_blueprint" -> Cmd("write", BlueprintPath, "")
      [] tok = "X" -> Cmd("execute", NoPath, "")
      [] tok = "R" -> Cmd("read", UtilPath, "")
      [] tok = "D" -> Cmd("delete", UtilPath, "")
      [] tok = "DBQ_create" -> Cmd("db_query", NoPath, "CREATE TABLE")
      [] tok = "DBQ_alter" -> Cmd("db_query", NoPath, "ALTER TABLE")
      [] OTHER -> Cmd("bogus", NoPath, "")

ParseError == [ok |-> FALSE, taskComplete |-> FALSE, apiBlueprint |-> FALSE, commands |-> <<>>]
EmptyObject == [ok |-> TRUE, taskComplete |-> FALSE, apiBlueprint |-> FALSE, commands |-> <<>>]

RECURSIVE Scan(_, _, _, _)
Scan(text, i, st, acc) ==
    IF i > Len(text) THEN (IF st = "end" THEN acc ELSE ParseError)
    ELSE LET c == text[i] IN
      CASE st = "start" ->
             IF c \in JsonWhitespace THEN Scan(text, i + 1, "start", acc)
             ELSE IF c = "{" THEN Scan(text, i + 1, "obj", acc)
             ELSE ParseError
        [] st = "obj" ->
             IF c \in JsonWhitespace THEN Scan(text, i + 1, "obj", acc)
             ELSE IF c = "}" THEN Scan(text, i + 1, "end", acc)
             ELSE IF c = "Q" THEN Scan(text, i + 1, "str", acc)
             ELSE IF c = "T" THEN Scan(text, i + 1, "obj", [acc EXCEPT !.taskComplete = TRUE])
             ELSE IF c = "B" THEN Scan(text, i + 1, "obj", [acc EXCEPT !.apiBlueprint = TRUE])
             ELSE IF c \in CommandTokens
                  THEN Scan(text, i + 1, "obj", [acc EXCEPT !.commands = Append(@, CmdOf(c))])
             ELSE ParseError
        [] st = "str" ->
             IF c = "Q" THEN Scan(text, i + 1, "obj", acc)
             ELSE IF c = "a" \/ c \in EscapeSequences THEN Scan(text, i + 1, "str", acc)
             ELSE ParseError        \* a raw control character inside a string
        [] OTHER ->
             IF c \in JsonWhitespace THEN Scan(text, i + 1, "end", acc) ELSE ParseError

\* JSON.parse(text): the parsed response, or ok = FALSE where JSON.parse throws
JSONParse(text) == Scan(text, 1, "start", EmptyObject)

\* the replace callback: escapeMap[char] || ''
EscapeMap(c) ==
    CASE c = "LF" -> <<"\\n">>
      [] c = "CR" -> <<"\\r">>
      [] c = "HT" -> <<"\\t">>
      [] c = "BS" -> <<"\\b">>
      [] c = "FF" -> <<"\\f">>
      [] OTHER -> <<>>

\* result.text.replace(/[\x00-\x1F\x7F]/g, ...)
RECURSIVE Sanitize(_)
Sanitize(text) ==
    IF text = <<>> THEN <<>>
    ELSE (IF Head(text) \in ControlChars THEN EscapeMap(Head(text)) ELSE <<Head(text)>>)
         \o Sanitize(Tail(text))

\* a loop whose catch arm goes straight to the fallback, without the sanitizing retry
ParseResponseNoRetry(text) ==
    IF JSONParse(text).ok THEN [how |-> "direct", value |-> JSONParse(text)]
    ELSE [how |-> "fallback", value |-> EmptyObject]

\* what the try / catch / try of one iteration produces: the parsed response
\* and how it was obtained
ParseResponse(text) ==
    IF JSONParse(text).ok THEN [how |-> "direct", value |-> JSONParse(text)]
    ELSE IF JSONParse(Sanitize(text)).ok
         THEN [how |-> "sanitized", value |-> JSONParse(Sanitize(text))]
         ELSE [how |-> "fallback", value |-> EmptyObject]

\* the texts the LLM is drawn to answer with
Responses ==
    { <<"{", "T", "}">>,                                  \* complete, nothing to do
      <<"{", "W_route", "B", "T", "}">>,                  \* writes a route, blueprint, complete
      <<"{", "W_blueprint", "DBQ_create", "D", "}">>,     \* work, not complete
      <<"{", "Q", "a", "LF", "Q", "X", "B", "T", "}">>,   \* raw newline inside a string
      <<"LF", "{", "Q", "HT", "Q", "T", "}">>,            \* raw newline as whitespace and raw tab in a string
      <<"{", "Q", "NUL", "Q", "W_util", "U", "}">>,       \* other control character in a string
      <<"{", "DBQ_alter", "DBQ_create", "T", "}">>,       \* two queries, complete
      <<"a">> }                                           \* not JSON at all

\* usage reported by the provider for one call
InputTokensOf(text) == Len(text)
OutputTokensOf(text) == 1

\* calculateCost(inputTokens, outputTokens, 'grok-4-fast'), in units of 10^-8 USD:
\* 0.20 USD and 0.50 USD per million tokens
CalculateCost(inTok, outTok) == inTok * 20 + outTok * 50

Turn(role, content) == [role |-> role, content |-> content]
SystemTurn == Turn("system", <<"system prompt">>)
RequestTurn == Turn("user", <<"User Request">>)
ErrorTurn == Turn("user", <<"ERROR: invalid JSON">>)
ResultsTurn == Turn("user", <<"Execution Results">>)

\* determineFileType(filePath): includes('/api/') and so on
HasDir(path, dir) == \E i \in 2..(Len(path) - 1) : path[i] = dir
DetermineFileType(path) ==
    IF HasDir(path, "api") THEN "route"
    ELSE IF HasDir(path, "middleware") THEN "middleware"
    ELSE IF HasDir(path, "models") THEN "model"
    ELSE IF HasDir(path, "utils") THEN "utility"
    ELSE "other"

RECURSIVE WritesOf(_)
WritesOf(cmds) ==
    IF cmds = <<>> THEN <<>>
    ELSE (IF Head(cmds).type = "write"
          THEN <<[path |-> Head(cmds).path, type |-> DetermineFileType(Head(cmds).path)]>>
          ELSE <<>>) \o WritesOf(Tail(cmds))

\* a tracking loop that pushes each db_query at the front of the list
RECURSIVE QueriesOfReversed(_)
QueriesOfReversed(cmds) ==
    IF cmds = <<>> THEN <<>>
    ELSE QueriesOfReversed(Tail(cmds))
         \o (IF Head(cmds).type = "db_query" THEN <<[type |-> Head(cmds).queryType]>> ELSE <<>>)

\* "if (cmd.type === 'db_query') dbQueries.push({query, schemaName, type: cmd.queryType})"
RECURSIVE QueriesOf(_)
QueriesOf(cmds) ==
    IF cmds = <<>> THEN <<>>
    ELSE (IF Head(cmds).type = "db_query" THEN <<[type |-> Head(cmds).queryType]>> ELSE <<>>)
         \o QueriesOf(Tail(cmds))

\* the "Extract API blueprint" chain: the assistant turns, each JSON.parse'd as
\* stored (null when that throws), the ones with taskComplete === true, the last
RECURSIVE FinalResponse(_)
FinalResponse(history) ==
    IF history = <<>> THEN ParseError
    ELSE LET last == history[Len(history)]
             rest == SubSeq(history, 1, Len(history) - 1)
         IN IF last.role = "assistant" /\ JSONParse(last.content).ok
               /\ JSONParse(last.content).taskComplete
            THEN JSONParse(last.content)
            ELSE FinalResponse(rest)

\* the success flag of the returned object
SuccessFlag(iter, cap) == iter < cap

LoopIdle ==
    /\ lpc = "idle" /\ maxIterations = Infinity /\ iteration = 0
    /\ conversationHistory = <<>> /\ filesModified = <<>> /\ dbQueries = <<>>
    /\ totalInputTokens = 0 /\ totalOutputTokens = 0 /\ costRows = <<>>
    /\ llmCalls = 0 /\ resultText = <<>> /\ agentResponse = EmptyObject /\ lastParse = "none"
    /\ sawComplete = FALSE /\ loopResult = NoResult

\* the state of runAgenticLoop when it reaches its while statement
LoopEntered(cap) ==
    /\ lpc = "while" /\ maxIterations = cap /\ iteration = 0
    /\ conversationHistory = <<SystemTurn, RequestTurn>>
    /\ filesModified = <<>> /\ dbQueries = <<>>
    /\ totalInputTokens = 0 /\ totalOutputTokens = 0 /\ costRows = <<>>
    /\ llmCalls = 0 /\ resultText = <<>> /\ agentResponse = EmptyObject /\ lastParse = "none"
    /\ sawComplete = FALSE /\ loopResult = NoResult

\* while (iteration < maxIterations) { iteration++; ...
LoopWhile ==
    /\ lpc = "while"
    /\ (maxIterations = Infinity) => llmCalls < (IF entry = "job" THEN MaxJobCalls ELSE MaxCalls)
    /\ IF iteration < maxIterations
       THEN /\ iteration' = iteration + 1
            /\ lpc' = "llm"
       ELSE /\ iteration' = iteration
            /\ lpc' = "track"
    /\ UNCHANGED <<entry, wvars, dvars, pvars, jvars, evars, maxIterations, conversationHistory, filesModified, dbQueries,
                   totalInputTokens, totalOutputTokens, costRows, llmCalls, resultText,
                   agentResponse, lastParse, sawComplete, loopResult>>

\* callLLMNonStream rejects: nothing in the loop catches it
LoopLLMThrows ==
    /\ lpc = "llm"
    /\ llmCalls' = llmCalls + 1
    /\ lpc' = "threw"
    /\ UNCHANGED <<entry, wvars, dvars, pvars, jvars, evars, maxIterations, iteration, conversationHistory, filesModified,
                   dbQueries, totalInputTokens, totalOutputTokens, costRows, resultText,
                   agentResponse, lastParse, sawComplete, loopResult>>

\* callLLMNonStream resolves; the response is parsed, sanitized and re-parsed, or
\* replaced by the fallback with a corrective user turn and "continue"
LoopLLMResponds ==
    /\ lpc = "llm"
    /\ \E text \in Responses :
         LET p == ParseResponse(text) IN
           /\ llmCalls' = llmCalls + 1
           /\ resultText' = text
           /\ lastParse' = p.how
           /\ agentResponse' = p.value
           /\ IF p.how = "fallback"
              THEN /\ conversationHistory' = Append(conversationHistory, ErrorTurn)
                   /\ lpc' = "while"
                   /\ UNCHANGED <<totalInputTokens, totalOutputTokens, evars>>
              ELSE /\ totalInputTokens' = totalInputTokens + InputTokensOf(text)
                   /\ totalOutputTokens' = totalOutputTokens + OutputTokensOf(text)
                   /\ conversationHistory' = Append(conversationHistory, Turn("assistant", text))
                   /\ commands' = p.value.commands
                   /\ results' = <<>>
                   /\ sandboxLog' = <<>>
                   /\ cmdFailed' = <<>>
                   /\ epc' = "run"
                   /\ lpc' = "exec"
    /\ UNCHANGED <<entry, wvars, dvars, pvars, jvars, maxIterations, iteration, filesModified, dbQueries, costRows,
                   sawComplete, loopResult>>

\* executeAgentCommands returned: track modifications, append the results turn,
\* break when the agent says it is done
LoopAfterCommands ==
    /\ lpc = "exec"
    /\ epc = "run"
    /\ Len(results) = Len(commands)
    /\ filesModified' = filesModified \o WritesOf(commands)
    /\ dbQueries' = dbQueries \o QueriesOf(commands)
    /\ conversationHistory' = Append(conversationHistory, ResultsTurn)
    /\ epc' = "idle"
    /\ commands' = <<>> /\ results' = <<>> /\ sandboxLog' = <<>> /\ cmdFailed' = <<>>
    /\ sawComplete' = agentResponse.taskComplete
    /\ lpc' = IF agentResponse.taskComplete THEN "track" ELSE "while"
    /\ UNCHANGED <<entry, wvars, dvars, pvars, jvars, maxIterations, iteration,
                   totalInputTokens, totalOutputTokens, costRows, llmCalls, resultText,
                   agentResponse, lastParse, loopResult>>

\* trackMessageCost once after the loop, then the returned object.  The INSERT
\* goes through the pool; trackMessageCost rethrows when it fails.
LoopTrackAndReturn ==
    /\ lpc = "track"
    /\ \E insertFails \in BOOL :
         IF insertFails
         THEN /\ lpc' = "threw"
              /\ UNCHANGED <<costRows, loopResult>>
         ELSE /\ costRows' = Append(costRows,
                    [messageType |-> "agentic-container-execution",
                     inputTokens |-> totalInputTokens, outputTokens |-> totalOutputTokens])
              /\ loopResult' = [success |-> SuccessFlag(iteration, maxIterations),
                                iterations |-> iteration,
                                apiBlueprint |-> FinalResponse(conversationHistory).apiBlueprint,
                                totalCost |-> CalculateCost(totalInputTokens, totalOutputTokens)]
              /\ lpc' = "returned"
    /\ UNCHANGED <<entry, wvars, dvars, pvars, jvars, evars, maxIterations, iteration, conversationHistory, filesModified,
                   dbQueries, totalInputTokens, totalOutputTokens, llmCalls, resultText,
                   agentResponse, lastParse, sawComplete>>

\* ------------------------------------------------------------------------
\* Messages on the job's stream (worker/pubsub-handlers.js)
\* ------------------------------------------------------------------------
\* every message records the state of the outer transaction when it was published
Message(type, progress, complete, isError) ==
    [type |-> type, progress |-> progress, complete |-> complete, isError |-> isError,
     tx |-> tx]

\* publishProgress(streamId, message, progress)
ProgressMsg(p) == Message("progress", p, FALSE, FALSE)
\* publishSuccess(streamId, content)
SuccessMsg == Message("result", 0 - 1, TRUE, FALSE)
\* publishError(streamId, content)
\* error.message of the error the handler's catch block received: the text thrown
\* by getProjectGitHubRepo when the project has no active repository row, or the
\* text of whichever other call failed
CaughtErrorMessage ==
    IF faults.noRepo > 0 THEN "No GitHub repository found for project <projectId>"
    ELSE IF faults.missing > 0 THEN "No active database found for project"
    ELSE "<message of the failed call>"

\* `Modification failed: ${error.message}` / `Execution failed: ${error.message}`
ErrorContent(message) ==
    <<IF jobName = "projectModificationJob" THEN "Modification failed: " ELSE "Execution failed: ",
      message>>

ErrorMsgWithoutCause ==
    Message("result", 0 - 1, TRUE, TRUE) @@ [content |-> ErrorContent("Unknown error")]

ErrorMsg ==
    Message("result", 0 - 1, TRUE, TRUE) @@ [content |-> ErrorContent(CaughtErrorMessage)]
\* publishToChannel(streamId, JSON.stringify({type: ...}))
TypedMsg(type) == Message(type, 0 - 1, FALSE, FALSE)

Terminals(msgs) == {i \in 1..Len(msgs) : msgs[i].complete}
Successes(msgs) == {i \in 1..Len(msgs) : msgs[i].complete /\ ~msgs[i].isError}
Errors(msgs) == {i \in 1..Len(msgs) : msgs[i].complete /\ msgs[i].isError}

\* ------------------------------------------------------------------------
\* Rows of the control database
\* ------------------------------------------------------------------------
Row(table, tag) == [table |-> table, tag |-> tag]

\* trackActivity / storeEnvVarRequirements / secret sync all insert into project_actions
Activity(actionType) == Row("project_actions", actionType)

DomainTables == {"project_actions", "generated_queries", "project_databases",
                 "project_github_repos", "project_deployments", "api_blueprints",
                 "cloud_credentials"}

\* activity: a ledger insert failed; publish: a publish rejected; other: any other
\* external call failed; missing: a row the job relies on was not there;
\* noRepo: getProjectGitHubRepo found no active repository row
NoFaults == [activity |-> 0, publish |-> 0, other |-> 0, missing |-> 0, noRepo |-> 0]
Fault(kind) == [faults EXCEPT ![kind] = @ + 1]

JobNames == {"initialProjectCreationJob", "projectModificationJob", "sync-flyio-secrets",
             "unregisteredJob", "toString"}

\* the processor registry and getProcessor(job.name)
Registry == {"initialProjectCreationJob", "projectModificationJob", "sync-flyio-secrets"}

\* registry is an object literal, so registry[jobName] also finds what the
\* literal inherits from Object.prototype; toString stands for those names
Inherited == {"toString"}

GetProcessor(name) ==
    IF name \in Registry THEN name
    ELSE IF name \in Inherited THEN "Object.prototype." \o name
    ELSE "undefined"

\* ------------------------------------------------------------------------
\* Building blocks of a handler step
\* ------------------------------------------------------------------------
\* A step is an operation followed by one progress publish.  o is how it goes:
\*   "ok"            every statement of the step completes
\*   "opFails"       the operation throws
\*   "publishFails"  the operation completes and the publish rejects
\* usesClient says the operation runs a statement on the pipeline client, which
\* fails for certain while the outer transaction is in the aborted state.
StepOutcomes == {"ok", "opFails", "publishFails"}

OpThenProgress(nextPc, usesClient, rows, p, o) ==
    /\ (usesClient /\ tx = "aborted") => o = "opFails"
    /\ CASE o = "ok" ->
              /\ pc' = nextPc
              /\ stream' = Append(stream, ProgressMsg(p))
              /\ txRows' = txRows \cup rows
              /\ UNCHANGED <<tx, faults>>
         [] o = "opFails" ->
              /\ pc' = "catch"
              /\ tx' = IF usesClient /\ tx = "open" THEN "aborted" ELSE tx
              /\ faults' = IF usesClient /\ tx = "aborted" THEN faults ELSE Fault("other")
              /\ UNCHANGED <<stream, txRows>>
         [] OTHER ->
              /\ pc' = "catch"
              /\ txRows' = txRows \cup rows
              /\ faults' = Fault("publish")
              /\ UNCHANGED <<stream, tx>>

\* a bare publishProgress
Progress(nextPc, p, o) ==
    /\ o # "opFails"
    /\ OpThenProgress(nextPc, FALSE, {}, p, o)

\* A ledger insert whose error is caught and logged by its caller (trackActivity,
\* storeEnvVarRequirements, ...): the row is written when the statement succeeds;
\* a failed statement leaves the transaction aborted and nothing is raised.
LedgerRows(row, insertOk) == IF tx = "open" /\ insertOk THEN txRows \cup {row} ELSE txRows
LedgerTx(insertOk) == IF tx = "open" /\ ~insertOk THEN "aborted" ELSE tx
LedgerFaults(insertOk) == IF tx = "open" /\ ~insertOk THEN Fault("activity") ELSE faults

\* ------------------------------------------------------------------------
\* Dispatcher and processors (worker/index.js, worker/processors)
\* ------------------------------------------------------------------------
JobIdle ==
    /\ jobName = "none" /\ shouldRedeploy = TRUE /\ projectDeployments = {}
    /\ pc = "idle" /\ stream = <<>>
    /\ tx = "none" /\ txRows = {} /\ faults = NoFaults
    /\ authInfo = FALSE /\ paymentInfo = FALSE /\ databaseInfo = FALSE
    /\ githubPushResult = FALSE /\ blueprintId = FALSE /\ containerId = FALSE
    /\ detectorFallbacks = 0 /\ gitExitCodes = <<>>
    /\ committedRows = {} /\ outcome = "running" /\ released = 0 /\ teardowns = 0

\* the processor promise rejects: the queue marks the job failed
Reject == outcome' = "rejected" /\ pc' = "end"

\* where each registered processor starts: logMCPRequest in the creation and
\* modification processors, pool.connect() in the secret-sync processor
ProcessorEntry(name) == IF name = "sync-flyio-secrets" THEN "connect" ELSE "logRequest"

\* const processor = getProcessor(job.name); if (!processor) throw ...; return processor(job)
Dispatch ==
    /\ pc = "dispatch"
    /\ CASE GetProcessor(jobName) = "undefined" -> Reject
         [] GetProcessor(jobName) \in Registry ->
              /\ pc' = ProcessorEntry(jobName)
              /\ UNCHANGED outcome
         [] OTHER ->
              \* Object.prototype.toString(job) returns "[object Undefined]"
              /\ outcome' = "resolved"
              /\ pc' = "end"
    /\ UNCHANGED <<entry, wvars, dvars, pvars, evars, lvars, jfixed, stream, tx, txRows, faults, jlocals,
                   committedRows, released, teardowns>>

\* logMCPRequest of the creation and modification processors: its own pool client,
\* no transaction, so the row is committed at once; an error leaves the processor
LogMCPRequest ==
    /\ pc = "logRequest"
    /\ \E insertOk \in BOOL :
         IF insertOk
         THEN /\ committedRows' = committedRows \cup {Row("mcp_requests", "processing")}
              /\ pc' = "connect"
              /\ UNCHANGED <<outcome, faults>>
         ELSE /\ Reject
              /\ faults' = Fault("other")
              /\ UNCHANGED committedRows
    /\ UNCHANGED <<entry, wvars, dvars, pvars, evars, lvars, jfixed, stream, tx, txRows, jlocals, released, teardowns>>

\* const client = await pool.connect(), before the try statement of the handler
PoolConnect ==
    /\ pc = "connect"
    /\ \E connected \in BOOL :
         IF connected
         THEN /\ pc' = "begin"
              /\ UNCHANGED <<outcome, faults>>
         ELSE /\ Reject
              /\ faults' = Fault("other")
    /\ UNCHANGED <<entry, wvars, dvars, pvars, evars, lvars, jfixed, stream, tx, txRows, jlocals, committedRows,
                   released, teardowns>>

FirstStep(name) ==
    CASE name = "initialProjectCreationJob" -> "c_start"
      [] name = "projectModificationJob" -> "m_start"
      [] OTHER -> "s_lookup"

\* await client.query('BEGIN')
Begin ==
    /\ pc = "begin"
    /\ \E began \in BOOL :
         IF began
         THEN /\ tx' = "open"
              /\ pc' = FirstStep(jobName)
              /\ UNCHANGED faults
         ELSE /\ pc' = "catch"
              /\ faults' = Fault("other")
              /\ UNCHANGED tx
    /\ UNCHANGED <<entry, wvars, dvars, pvars, evars, lvars, jfixed, stream, txRows, jlocals, jend>>

\* A run of sandbox operations and progress publishes that touches no control
\* database state.  msgs are its progress values in order; published = Len(msgs)
\* means every statement completed, a smaller number that the statement after
\* that many publishes threw (kind tells whether it was a publish or another call).
Phase(nextPc, msgs, published, kind) ==
    /\ published \in 0..Len(msgs)
    /\ stream' = stream \o [i \in 1..published |-> ProgressMsg(msgs[i])]
    /\ IF published = Len(msgs)
       THEN pc' = nextPc /\ UNCHANGED faults
       ELSE pc' = "catch" /\ faults' = Fault(kind)
    /\ UNCHANGED <<tx, txRows>>

FaultKinds == {"other", "publish"}

\* runAgenticLoop({...}) as the two handlers call it: no maxIterations argument,
\* so the parameter takes its default
EnterLoop ==
    /\ lpc' = "while" /\ maxIterations' = Infinity /\ iteration' = 0
    /\ conversationHistory' = <<SystemTurn, RequestTurn>>
    /\ filesModified' = <<>> /\ dbQueries' = <<>>
    /\ totalInputTokens' = 0 /\ totalOutputTokens' = 0
    /\ llmCalls' = 0 /\ resultText' = <<>> /\ agentResponse' = EmptyObject
    /\ lastParse' = "none" /\ sawComplete' = FALSE /\ loopResult' = NoResult
    /\ UNCHANGED costRows

\* the call returned or threw: its locals are gone, agentResult stays
LeaveLoop ==
    /\ lpc' = "idle" /\ maxIterations' = Infinity /\ iteration' = 0
    /\ conversationHistory' = <<>>
    /\ totalInputTokens' = 0 /\ totalOutputTokens' = 0
    /\ llmCalls' = 0 /\ resultText' = <<>> /\ agentResponse' = EmptyObject
    /\ lastParse' = "none" /\ sawComplete' = FALSE
    /\ UNCHANGED <<filesModified, dbQueries, costRows, loopResult>>

\* ------------------------------------------------------------------------
\* handleProjectCreationOrchestration (worker/handlers/projectCreationExecutionHandler.js)
\* ------------------------------------------------------------------------
\* await publishProgress(streamId, "Starting execution...", 10)
CreationStart ==
    /\ pc = "c_start"
    /\ \E o \in StepOutcomes : Progress("c_auth", 10, o)
    /\ UNCHANGED <<entry, wvars, dvars, pvars, evars, lvars, jfixed, jlocals, jend>>

\* What the detection call can come back with: callLLMNonStream throws, the text
\* is not JSON, the text is the JSON value null, or it is an object whose needs*
\* field is true or false.
DetectorReplies == {"llmError", "notJson", "jsonNull", "needed", "notNeeded"}

\* the try block of a detector throws: callLLMNonStream rethrew, JSON.parse threw,
\* or reading a property of null threw
DetectorThrew(reply) == reply \in {"llmError", "notJson", "jsonNull"}

ZeroUsage == [inputTokens |-> 0, outputTokens |-> 0]
\* result.usage of a call that returned
CallUsage == [inputTokens |-> 1, outputTokens |-> 1]

\* try { ... return { needsAuth: response.needsAuth, usage: result.usage } }
\* catch { return { needsAuth: false, usage: { inputTokens: 0, outputTokens: 0 } } }
detectAuthenticationNeed(reply) ==
    IF DetectorThrew(reply)
    THEN [needsAuth |-> FALSE, usage |-> ZeroUsage]
    ELSE [needsAuth |-> reply = "needed", usage |-> CallUsage]

detectPaymentNeed(reply) ==
    IF DetectorThrew(reply)
    THEN [needsPayments |-> FALSE, usage |-> ZeroUsage]
    ELSE [needsPayments |-> reply = "needed", usage |-> CallUsage]

\* a detector whose catch block answers that a database is needed
detectDatabaseNeedAssumesNeed(reply) ==
    IF DetectorThrew(reply)
    THEN [needsDatabase |-> TRUE, usage |-> ZeroUsage]
    ELSE [needsDatabase |-> reply = "needed", usage |-> CallUsage]

detectDatabaseNeed(reply) ==
    IF DetectorThrew(reply)
    THEN [needsDatabase |-> FALSE, usage |-> ZeroUsage]
    ELSE [needsDatabase |-> reply = "needed", usage |-> CallUsage]

Fallbacks(reply) == IF DetectorThrew(reply) THEN detectorFallbacks + 1 ELSE detectorFallbacks

\* authResult = await detectAuthenticationNeed(userPrompt);
\* if (authResult.needsAuth) { authInfo = authResult; progress 8 }
CreationDetectAuth ==
    /\ pc = "c_auth"
    /\ \E reply \in DetectorReplies, o \in StepOutcomes :
         LET authResult == detectAuthenticationNeed(reply) IN
         /\ authInfo' = authResult.needsAuth
         /\ detectorFallbacks' = Fallbacks(reply)
         /\ IF authResult.needsAuth
            THEN Progress("c_payment", 8, o)
            ELSE o = "ok" /\ pc' = "c_payment" /\ UNCHANGED <<stream, tx, txRows, faults>>
    /\ UNCHANGED <<entry, wvars, dvars, pvars, evars, lvars, jfixed, paymentInfo, databaseInfo, githubPushResult,
                   blueprintId, containerId, gitExitCodes, jend>>

\* paymentResult = await detectPaymentNeed(userPrompt);
\* if (paymentResult.needsPayments) { paymentInfo = paymentResult; progress 9 }
CreationDetectPayment ==
    /\ pc = "c_payment"
    /\ \E reply \in DetectorReplies, o \in StepOutcomes :
         LET paymentResult == detectPaymentNeed(reply) IN
         /\ paymentInfo' = paymentResult.needsPayments
         /\ detectorFallbacks' = Fallbacks(reply)
         /\ IF paymentResult.needsPayments
            THEN Progress("c_database", 9, o)
            ELSE o = "ok" /\ pc' = "c_database" /\ UNCHANGED <<stream, tx, txRows, faults>>
    /\ UNCHANGED <<entry, wvars, dvars, pvars, evars, lvars, jfixed, authInfo, databaseInfo, githubPushResult,
                   blueprintId, containerId, gitExitCodes, jend>>

\* detectionResult = await detectDatabaseNeed(userPrompt);
\* if (detectionResult.needsDatabase) { progress 12; design; provision } else { log }
CreationDetectDatabase ==
    /\ pc = "c_database"
    /\ \E reply \in DetectorReplies, o \in StepOutcomes :
         LET detectionResult == detectDatabaseNeed(reply) IN
         /\ detectorFallbacks' = Fallbacks(reply)
         /\ IF detectionResult.needsDatabase
            THEN Progress("c_design", 12, o)
            ELSE o = "ok" /\ pc' = "c_container" /\ UNCHANGED <<stream, tx, txRows, faults>>
    /\ UNCHANGED <<entry, wvars, dvars, pvars, evars, lvars, jfixed, authInfo, paymentInfo, databaseInfo,
                   githubPushResult, blueprintId, containerId, gitExitCodes, jend>>

\* designDatabaseSchema (rethrows an LLM or parse error), then progress 15
CreationDesignSchema ==
    /\ pc = "c_design"
    /\ \E o \in StepOutcomes : OpThenProgress("c_provision", FALSE, {}, 15, o)
    /\ UNCHANGED <<entry, wvars, dvars, pvars, evars, lvars, jfixed, jlocals, jend>>

\* provisionAndCreateTables: CREATE DATABASE, INSERT project_databases, the tables
\* with one generated_queries row each, the database_created activity (its error
\* is caught), then progress 18
CreationProvisionDatabase ==
    /\ pc = "c_provision"
    /\ \E o \in StepOutcomes, insertOk \in BOOL :
         /\ tx = "aborted" => o = "opFails"
         /\ CASE o = "opFails" ->
                   /\ pc' = "catch"
                   /\ tx' = IF tx = "open" THEN "aborted" ELSE tx
                   /\ faults' = IF tx = "aborted" THEN faults ELSE Fault("other")
                   /\ UNCHANGED <<stream, txRows, databaseInfo>>
              [] OTHER ->
                   /\ txRows' = LedgerRows(Activity("database_created"), insertOk)
                                  \cup {Row("project_databases", "active"),
                                        Row("generated_queries", "executed")}
                   /\ tx' = LedgerTx(insertOk)
                   /\ databaseInfo' = TRUE
                   /\ IF o = "ok"
                      THEN /\ pc' = "c_container"
                           /\ stream' = Append(stream, [ProgressMsg(18) EXCEPT !.tx = LedgerTx(insertOk)])
                           /\ faults' = LedgerFaults(insertOk)
                      ELSE /\ pc' = "catch"
                           /\ faults' = [LedgerFaults(insertOk) EXCEPT !.publish = @ + 1]
                           /\ UNCHANGED stream
    /\ UNCHANGED <<entry, wvars, dvars, pvars, evars, lvars, jfixed, authInfo, paymentInfo, githubPushResult,
                   blueprintId, containerId, detectorFallbacks, gitExitCodes, jend>>

\* getOrProvisionContainer: sandbox, Nitro project, INSERT container_sessions; progress 20
CreationContainer ==
    /\ pc = "c_container"
    /\ \E o \in StepOutcomes :
         OpThenProgress("c_specs", TRUE, {Row("container_sessions", "active")}, 20, o)
    /\ UNCHANGED <<entry, wvars, dvars, pvars, evars, lvars, jfixed, jlocals, jend>>

\* if (authInfo || paymentInfo): progress 25, fetchIntegrationSpecs, progress 28
CreationIntegrationSpecs ==
    /\ pc = "c_specs"
    /\ \E published \in 0..2 :
         Phase("c_track", IF authInfo \/ paymentInfo THEN <<25, 28>> ELSE <<>>,
               published, "publish")
    /\ UNCHANGED <<entry, wvars, dvars, pvars, evars, lvars, jfixed, jlocals, jend>>

\* try { SELECT session_id ...; trackActivity(project_created) } catch { log }
CreationTrackCreated ==
    /\ pc = "c_track"
    /\ \E selectOk \in BOOL, insertOk \in BOOL :
         /\ ~selectOk => insertOk
         /\ IF tx = "open" /\ ~selectOk
            THEN tx' = "aborted" /\ faults' = Fault("other") /\ UNCHANGED txRows
            ELSE /\ txRows' = LedgerRows(Activity("project_created"), insertOk)
                 /\ tx' = LedgerTx(insertOk)
                 /\ faults' = LedgerFaults(insertOk)
    /\ pc' = "c_loop"
    /\ UNCHANGED <<entry, wvars, dvars, pvars, evars, lvars, jfixed, stream, jlocals, jend>>

\* progress 30, then the call of runAgenticLoop
CreationStartLoop ==
    /\ pc = "c_loop"
    /\ \E o \in StepOutcomes :
         /\ Progress("c_agent", 30, o)
         /\ IF o = "ok" THEN EnterLoop ELSE UNCHANGED lvars
    /\ UNCHANGED <<entry, wvars, dvars, pvars, evars, jfixed, jlocals, jend>>

\* runAgenticLoop threw, or returned agentResult and progress 70 is published
CreationAfterLoop ==
    /\ pc = "c_agent"
    /\ lpc \in {"returned", "threw"}
    /\ LeaveLoop
    /\ IF lpc = "threw"
       THEN pc' = "catch" /\ faults' = Fault("other") /\ UNCHANGED <<stream, tx, txRows>>
       ELSE \E o \in StepOutcomes : Progress("c_deployfiles", 70, o)
    /\ UNCHANGED <<entry, wvars, dvars, pvars, evars, jfixed, jlocals, jend>>

\* a statement on the pipeline client that the handler does not guard
ClientWrite(nextPc, rows, ok) ==
    /\ tx = "aborted" => ~ok
    /\ IF ok
       THEN pc' = nextPc /\ txRows' = txRows \cup rows /\ UNCHANGED <<tx, faults>>
       ELSE /\ pc' = "catch"
            /\ tx' = IF tx = "open" THEN "aborted" ELSE tx
            /\ faults' = IF tx = "aborted" THEN faults ELSE Fault("other")
            /\ UNCHANGED txRows
    /\ UNCHANGED stream

\* CORS middleware (72), db.js commit (73, with a database), GitHub Actions workflow
\* (74), fly.toml and Dockerfile (76), flyctl install (77), createFlyApp (78),
\* database secrets (79, with a database)
DeployFilesProgress ==
    <<72>> \o (IF databaseInfo THEN <<73>> ELSE <<>>) \o <<74, 76, 77, 78>>
           \o (IF databaseInfo THEN <<79>> ELSE <<>>)

CreationDeployFiles ==
    /\ pc = "c_deployfiles"
    /\ \E published \in 0..Len(DeployFilesProgress), kind \in FaultKinds :
         /\ (published = Len(DeployFilesProgress)) => kind = "other"
         /\ Phase("c_deployrow", DeployFilesProgress, published, kind)
    /\ UNCHANGED <<entry, wvars, dvars, pvars, evars, lvars, jfixed, jlocals, jend>>

\* INSERT INTO project_deployments (... 'pending' ...)
CreationDeploymentRow ==
    /\ pc = "c_deployrow"
    /\ \E ok \in BOOL : ClientWrite("c_endpoints", {Row("project_deployments", "pending")}, ok)
    /\ UNCHANGED <<entry, wvars, dvars, pvars, evars, lvars, jfixed, jlocals, jend>>

\* f.path.includes('/api/') && f.path.endsWith('.js')
IsRouteFile(f) == HasDir(f.path, "api") /\ f.path[Len(f.path)] \in {"users.get.js", "db.js"}
RouteFiles(files) == {i \in 1..Len(files) : IsRouteFile(files[i])}

\* trackActivity(endpoints_added) when the agent wrote route files; never raises
CreationTrackEndpoints ==
    /\ pc = "c_endpoints"
    /\ \E insertOk \in BOOL :
         IF Len(filesModified) > 0 /\ RouteFiles(filesModified) # {}
         THEN /\ txRows' = LedgerRows(Activity("endpoints_added"), insertOk)
              /\ tx' = LedgerTx(insertOk)
              /\ faults' = LedgerFaults(insertOk)
         ELSE insertOk /\ UNCHANGED <<tx, txRows, faults>>
    /\ pc' = "c_push"
    /\ UNCHANGED <<entry, wvars, dvars, pvars, evars, lvars, jfixed, stream, jlocals, jend>>

\* if (filesModified.length > 0): commit the deployment files, pushToGitHubDeterministic
\* (repository, push, INSERT project_github_repos, INSERT github_push_history, the
\* github_push activity whose error is caught), progress 80, setGitHubSecret (error
\* caught), syncProjectToS3, progress 90
CreationPush ==
    /\ pc = "c_push"
    /\ IF Len(filesModified) = 0
       THEN pc' = "c_blueprint" /\ UNCHANGED <<stream, tx, txRows, faults, githubPushResult>>
       ELSE \E pushOk \in BOOL, insertOk \in BOOL, published \in 0..2, kind \in FaultKinds :
              /\ tx = "aborted" => ~pushOk
              /\ (published = 2) => kind = "other"
              /\ IF ~pushOk
                 THEN /\ insertOk /\ published = 0 /\ kind = "other"
                      /\ pc' = "catch"
                      /\ tx' = IF tx = "open" THEN "aborted" ELSE tx
                      /\ faults' = IF tx = "aborted" THEN faults ELSE Fault("other")
                      /\ UNCHANGED <<stream, txRows, githubPushResult>>
                 ELSE /\ txRows' = LedgerRows(Activity("github_push"), insertOk)
                                     \cup {Row("project_github_repos", "active"),
                                           Row("github_push_history", "pushed")}
                      /\ tx' = LedgerTx(insertOk)
                      /\ githubPushResult' = TRUE
                      /\ stream' = stream \o [i \in 1..published |->
                                     [ProgressMsg(<<80, 90>>[i]) EXCEPT !.tx = LedgerTx(insertOk)]]
                      /\ IF published = 2
                         THEN pc' = "c_blueprint" /\ faults' = LedgerFaults(insertOk)
                         ELSE /\ pc' = "catch"
                              /\ faults' = [LedgerFaults(insertOk) EXCEPT ![kind] = @ + 1]
    /\ UNCHANGED <<entry, wvars, dvars, pvars, evars, lvars, jfixed, authInfo, paymentInfo, databaseInfo, blueprintId,
                   containerId, detectorFallbacks, gitExitCodes, jend>>

\* if (agentResult.apiBlueprint): write and commit api-blueprint.json, INSERT api_blueprints
CreationBlueprint ==
    /\ pc = "c_blueprint"
    /\ IF loopResult.apiBlueprint
       THEN \E ok \in BOOL :
              /\ ClientWrite("c_credentials", {Row("api_blueprints", "stored")}, ok)
              /\ blueprintId' = ok
       ELSE pc' = "c_credentials" /\ UNCHANGED <<stream, tx, txRows, faults, blueprintId>>
    /\ UNCHANGED <<entry, wvars, dvars, pvars, evars, lvars, jfixed, authInfo, paymentInfo, databaseInfo,
                   githubPushResult, containerId, detectorFallbacks, gitExitCodes, jend>>

\* if (authInfo || paymentInfo): storeEnvVarRequirements then storeCredentialPlaceholders;
\* both catch and log their own errors
CreationStoreCredentials ==
    /\ pc = "c_credentials"
    /\ \E envOk \in BOOL, credOk \in BOOL :
         IF authInfo \/ paymentInfo
         THEN LET txMid == LedgerTx(envOk)
                  rowsMid == LedgerRows(Activity("env_vars_required"), envOk)
              IN /\ (txMid # "open") => credOk
                 /\ tx' = IF txMid = "open" /\ ~credOk THEN "aborted" ELSE txMid
                 /\ txRows' = IF txMid = "open" /\ credOk
                              THEN rowsMid \cup {Row("cloud_credentials", "placeholder")}
                              ELSE rowsMid
                 /\ faults' = IF txMid = "open" /\ ~credOk
                              THEN [LedgerFaults(envOk) EXCEPT !.other = @ + 1]
                              ELSE LedgerFaults(envOk)
         ELSE envOk /\ credOk /\ UNCHANGED <<tx, txRows, faults>>
    /\ pc' = "commit"
    /\ UNCHANGED <<entry, wvars, dvars, pvars, evars, lvars, jfixed, stream, jlocals, jend>>

\* await client.query('COMMIT').  On an open transaction it commits; on an aborted
\* one the server ends the transaction with a rollback and the promise still
\* resolves; a connection error rejects it.
CommitTx(nextPc, resolves) ==
    /\ IF resolves
       THEN /\ pc' = nextPc
            /\ tx' = IF tx = "open" THEN "committed" ELSE "rolledback"
            /\ committedRows' = IF tx = "open" THEN committedRows \cup txRows ELSE committedRows
            /\ txRows' = {}
            /\ UNCHANGED faults
       ELSE /\ pc' = "catch"
            /\ faults' = Fault("other")
            /\ UNCHANGED <<tx, txRows, committedRows>>
    /\ UNCHANGED stream

\* a catch block that releases the client itself, after its ROLLBACK, with no
\* finally clause: a ROLLBACK that rejects leaves the client checked out
RollbackTxThenRelease(nextPc, resolves) ==
    IF resolves
    THEN /\ pc' = nextPc
         /\ tx' = IF tx \in {"open", "aborted"} THEN "rolledback" ELSE tx
         /\ txRows' = {}
         /\ UNCHANGED <<faults, outcome, released>>
    ELSE /\ Reject
         /\ faults' = Fault("other")
         /\ UNCHANGED <<tx, txRows, released>>

\* await client.query('ROLLBACK') in a catch block: ends an open or aborted
\* transaction, is a no-op after COMMIT; when it rejects the catch block is left
RollbackTx(nextPc, resolves) ==
    IF resolves
    THEN /\ pc' = nextPc
         /\ tx' = IF tx \in {"open", "aborted"} THEN "rolledback" ELSE tx
         /\ txRows' = {}
         /\ UNCHANGED <<faults, outcome, released>>
    ELSE /\ Reject
         /\ released' = released + 1
         /\ faults' = Fault("other")
         /\ UNCHANGED <<tx, txRows>>

PublishTwice(msg, published) ==
    stream' = IF published THEN Append(Append(stream, msg), msg) ELSE stream

\* the message is built and published; when the publish rejects, nothing reaches the stream
Publish(msg, published) == stream' = IF published THEN Append(stream, msg) ELSE stream

CreationCommit ==
    /\ pc = "commit"
    /\ jobName = "initialProjectCreationJob"
    /\ \E resolves \in BOOL : CommitTx("c_committed", resolves)
    /\ UNCHANGED <<entry, wvars, dvars, pvars, evars, lvars, jfixed, jlocals, outcome, released, teardowns>>

\* if (blueprintId): SELECT the stored blueprint; publish it when a row comes back
CreationPublishBlueprint ==
    /\ pc = "c_committed"
    /\ \E selectOk \in BOOL, published \in BOOL :
         IF blueprintId
         THEN LET found == Row("api_blueprints", "stored") \in committedRows
              IN IF selectOk /\ found
                 THEN /\ Publish(TypedMsg("apiBlueprint"), published)
                      /\ pc' = IF published THEN "c_success" ELSE "catch"
                      /\ faults' = IF published THEN faults ELSE Fault("publish")
                 ELSE /\ published
                      /\ pc' = IF selectOk THEN "c_success" ELSE "catch"
                      /\ faults' = IF selectOk THEN faults ELSE Fault("other")
                      /\ UNCHANGED stream
         ELSE /\ selectOk /\ published
              /\ pc' = "c_success"
              /\ UNCHANGED <<stream, faults>>
    /\ UNCHANGED <<entry, wvars, dvars, pvars, evars, lvars, jfixed, tx, txRows, jlocals, jend>>

\* await publishSuccess(streamId, successParts.join('\n'))
CreationPublishSuccess ==
    /\ pc = "c_success"
    /\ \E published \in BOOL :
         /\ Publish(SuccessMsg, published)
         /\ pc' = IF published THEN "c_triggered" ELSE "catch"
         /\ faults' = IF published THEN faults ELSE Fault("publish")
    /\ UNCHANGED <<entry, wvars, dvars, pvars, evars, lvars, jfixed, tx, txRows, jlocals, jend>>

\* if (filesModified.length > 0 && githubPushResult): publish deployment_triggered
CreationDeploymentTriggered ==
    /\ pc = "c_triggered"
    /\ \E published \in BOOL :
         IF Len(filesModified) > 0 /\ githubPushResult
         THEN /\ Publish(TypedMsg("deployment_triggered"), published)
              /\ pc' = IF published THEN "return" ELSE "catch"
              /\ faults' = IF published THEN faults ELSE Fault("publish")
         ELSE published /\ pc' = "return" /\ UNCHANGED <<stream, faults>>
    /\ UNCHANGED <<entry, wvars, dvars, pvars, evars, lvars, jfixed, tx, txRows, jlocals, jend>>

\* return {...}; finally { client.release() }
HandlerReturn ==
    /\ pc = "return"
    /\ pc' = "end"
    /\ outcome' = "resolved"
    /\ released' = released + 1
    /\ UNCHANGED <<entry, wvars, dvars, pvars, evars, lvars, jfixed, stream, tx, txRows, faults, jlocals,
                   committedRows, teardowns>>

\* catch (error) { await client.query('ROLLBACK'); ...
HandlerCatch ==
    /\ pc = "catch"
    /\ jobName # "sync-flyio-secrets"
    /\ \E resolves \in BOOL : RollbackTx("publishError", resolves)
    /\ UNCHANGED <<entry, wvars, dvars, pvars, evars, lvars, jfixed, stream, jlocals, committedRows, teardowns>>

\* ... await publishError(streamId, errorMessage); throw error } finally { client.release() }
HandlerPublishError ==
    /\ pc = "publishError"
    /\ \E published \in BOOL :
         /\ Publish(ErrorMsg, published)
         /\ faults' = IF published THEN faults ELSE Fault("publish")
    /\ Reject
    /\ released' = released + 1
    /\ UNCHANGED <<entry, wvars, dvars, pvars, evars, lvars, jfixed, tx, txRows, jlocals, committedRows, teardowns>>

\* ------------------------------------------------------------------------
\* handleProjectModificationOrchestration (worker/handlers/projectModificationExecutionHandler.js)
\* ------------------------------------------------------------------------
\* progress 10, provisionDaytonaContainer (logs a create error, never throws), progress 15
ModificationSandbox ==
    /\ pc = "m_start"
    /\ \E published \in 0..2 : Phase("m_repo", <<10, 15>>, published, "publish")
    /\ UNCHANGED <<entry, wvars, dvars, pvars, evars, lvars, jfixed, jlocals, jend>>

\* getProjectGitHubRepo: SELECT the active repository row, throw when there is none;
\* progress 20
ModificationRepo ==
    /\ pc = "m_repo"
    /\ \E hasRepo \in BOOL, o \in StepOutcomes :
         IF hasRepo
         THEN OpThenProgress("m_clone", TRUE, {}, 20, o)
         ELSE /\ o = "ok"
              /\ pc' = "catch"
              /\ faults' = Fault("noRepo")
              /\ UNCHANGED <<stream, tx, txRows>>
    /\ UNCHANGED <<entry, wvars, dvars, pvars, evars, lvars, jfixed, jlocals, jend>>

\* cloneProjectFromGitHub, progress 25, createFeatureBranch, progress 30
ModificationClone ==
    /\ pc = "m_clone"
    /\ \E published \in 0..2, kind \in FaultKinds :
         /\ (published = 2) => kind = "other"
         /\ Phase("m_context", <<25, 30>>, published, kind)
    /\ UNCHANGED <<entry, wvars, dvars, pvars, evars, lvars, jfixed, jlocals, jend>>

\* loadProjectContext (a SELECT on the client, then sandbox reads), progress 35
ModificationContext ==
    /\ pc = "m_context"
    /\ \E o \in StepOutcomes : OpThenProgress("m_loop", TRUE, {}, 35, o)
    /\ UNCHANGED <<entry, wvars, dvars, pvars, evars, lvars, jfixed, jlocals, jend>>

\* progress 40, then the call of runAgenticLoop
ModificationStartLoop ==
    /\ pc = "m_loop"
    /\ \E o \in StepOutcomes :
         /\ Progress("m_agent", 40, o)
         /\ IF o = "ok" THEN EnterLoop ELSE UNCHANGED lvars
    /\ UNCHANGED <<entry, wvars, dvars, pvars, evars, jfixed, jlocals, jend>>

\* runAgenticLoop threw, or returned agentResult and progress 70 is published
ModificationAfterLoop ==
    /\ pc = "m_agent"
    /\ lpc \in {"returned", "threw"}
    /\ LeaveLoop
    /\ IF lpc = "threw"
       THEN pc' = "catch" /\ faults' = Fault("other") /\ UNCHANGED <<stream, tx, txRows>>
       ELSE \E o \in StepOutcomes : Progress("m_tables", 70, o)
    /\ UNCHANGED <<entry, wvars, dvars, pvars, evars, jfixed, jlocals, jend>>

CreateTableQueries(queries) == {i \in 1..Len(queries) : queries[i].type = "CREATE TABLE"}

\* with CREATE TABLE queries: addTablesToExistingDatabase (SELECT the active database
\* row, throw when there is none; the queries themselves are not executed), then
\* trackActivity(tables_added)
ModificationTables ==
    /\ pc = "m_tables"
    /\ \E selectOk \in BOOL, hasDatabase \in BOOL, insertOk \in BOOL :
         IF CreateTableQueries(dbQueries) = {}
         THEN /\ selectOk /\ hasDatabase /\ insertOk
              /\ pc' = "m_git"
              /\ UNCHANGED <<tx, txRows, faults>>
         ELSE /\ tx = "aborted" => ~selectOk
              /\ IF selectOk /\ hasDatabase
                 THEN /\ pc' = "m_git"
                      /\ txRows' = LedgerRows(Activity("tables_added"), insertOk)
                      /\ tx' = LedgerTx(insertOk)
                      /\ faults' = LedgerFaults(insertOk)
                 ELSE /\ insertOk /\ (~selectOk => hasDatabase)
                      /\ pc' = "catch"
                      /\ tx' = IF tx = "open" /\ ~selectOk THEN "aborted" ELSE tx
                      /\ faults' = IF ~selectOk
                                   THEN (IF tx = "aborted" THEN faults ELSE Fault("other"))
                                   ELSE Fault("missing")
                      /\ UNCHANGED txRows
    /\ UNCHANGED <<entry, wvars, dvars, pvars, evars, lvars, jfixed, stream, jlocals, jend>>

\* the git commands that publish a modification, in the order they are run:
\* commitChanges (git add, git commit), pushFeatureBranch, mergeFeatureBranch
\* (git checkout main, git merge), pushToMain
GitCommands == <<"commit", "push feature", "checkout main", "merge", "push main">>

\* what the sandbox can answer: executeCommandInContainer resolves with the
\* command's exit code, zero or not
GitRuns == [1..Len(GitCommands) -> {0, 1}]

\* how many of the git commands had returned when the phase stopped after that
\* many progress publishes
GitReturned(published, kind) ==
    IF published = 2 THEN {5}
    ELSE IF published = 1 THEN (IF kind = "publish" THEN {5} ELSE {2, 3, 4})
    ELSE (IF kind = "publish" THEN {2} ELSE {0, 1})

\* commitChanges, pushFeatureBranch, progress 80, mergeFeatureBranch, pushToMain,
\* progress 85.  None of the four functions reads the result executeCommandInContainer
\* resolves with; only a rejected call (timeout, sandbox gone) or a rejected publish
\* stops the phase.
ModificationGit ==
    /\ pc = "m_git"
    /\ \E published \in 0..2, kind \in FaultKinds, codes \in GitRuns :
         /\ (published = 2) => kind = "other"
         /\ Phase("m_blueprint", <<80, 85>>, published, kind)
         /\ \E n \in GitReturned(published, kind) : gitExitCodes' = SubSeq(codes, 1, n)
    /\ UNCHANGED <<entry, wvars, dvars, pvars, evars, lvars, jfixed, authInfo, paymentInfo,
                   databaseInfo, githubPushResult, blueprintId, containerId,
                   detectorFallbacks, jend>>

BlueprintModified(files) == \E i \in 1..Len(files) : files[i].path = BlueprintPath

\* if (blueprintModified) try { read and parse the file, UPDATE api_blueprints,
\* publish apiBlueprint } catch { log }
ModificationBlueprint ==
    /\ pc = "m_blueprint"
    /\ \E readOk \in BOOL, updateOk \in BOOL, published \in BOOL :
         IF BlueprintModified(filesModified)
         THEN LET updated == readOk /\ updateOk /\ tx = "open"
              IN /\ ~readOk => (updateOk /\ published)
                 /\ ~updated => published
                 /\ (tx = "aborted" /\ readOk) => updateOk
                 /\ txRows' = IF updated THEN txRows \cup {Row("api_blueprints", "updated")}
                              ELSE txRows
                 /\ tx' = IF readOk /\ ~updateOk /\ tx = "open" THEN "aborted" ELSE tx
                 /\ Publish(TypedMsg("apiBlueprint"), updated /\ published)
                 /\ faults' = IF ~readOk \/ (~updateOk /\ tx = "open") THEN Fault("other")
                              ELSE IF updated /\ ~published THEN Fault("publish")
                              ELSE faults
         ELSE /\ readOk /\ updateOk /\ published
              /\ UNCHANGED <<stream, tx, txRows, faults>>
    /\ pc' = "m_trackpush"
    /\ UNCHANGED <<entry, wvars, dvars, pvars, evars, lvars, jfixed, jlocals, jend>>

\* trackActivity(github_push)
ModificationTrackPush ==
    /\ pc = "m_trackpush"
    /\ \E insertOk \in BOOL :
         /\ txRows' = LedgerRows(Activity("github_push"), insertOk)
         /\ tx' = LedgerTx(insertOk)
         /\ faults' = LedgerFaults(insertOk)
    /\ pc' = "m_trackmod"
    /\ UNCHANGED <<entry, wvars, dvars, pvars, evars, lvars, jfixed, stream, jlocals, jend>>

\* the entries runAgenticLoop returns carry path, content and type; isNew is undefined
IsNew(f) == FALSE

\* determineModificationType(filesModified)
DetermineModificationType(files) ==
    IF \E i \in 1..Len(files) : files[i].type = "route" /\ IsNew(files[i])
    THEN "endpoints_added"
    ELSE IF \E i \in 1..Len(files) : files[i].type = "route" /\ ~IsNew(files[i])
         THEN "endpoints_modified"
         ELSE "business_logic_modified"

\* if (filesModified.length > 0) trackActivity(modificationType)
ModificationTrackChange ==
    /\ pc = "m_trackmod"
    /\ \E insertOk \in BOOL :
         IF Len(filesModified) > 0
         THEN /\ txRows' = LedgerRows(Activity(DetermineModificationType(filesModified)), insertOk)
              /\ tx' = LedgerTx(insertOk)
              /\ faults' = LedgerFaults(insertOk)
         ELSE insertOk /\ UNCHANGED <<tx, txRows, faults>>
    /\ pc' = "m_deploy"
    /\ UNCHANGED <<entry, wvars, dvars, pvars, evars, lvars, jfixed, stream, jlocals, jend>>

\* if (shouldRedeploy): deployProjectToFlyIO, progress 95.  The calls before its try
\* block propagate; inside it a healthy deployment INSERTs a 'deployed' row and
\* tracks a deployment activity, and every error is turned into {success: false}.
DeployResults == {"throws", "deployed", "insertFails", "notDeployed"}

ModificationDeploy ==
    /\ pc = "m_deploy"
    /\ IF ~shouldRedeploy
       THEN pc' = "m_session" /\ UNCHANGED <<stream, tx, txRows, faults>>
       ELSE \E d \in DeployResults, insertOk \in BOOL, published \in BOOL :
              /\ (d = "deployed") => tx = "open"
              /\ (d = "insertFails") => tx \in {"open", "aborted"}
              /\ (d # "deployed") => insertOk
              /\ (d = "throws") => published
              /\ LET txAfter == CASE d = "deployed" -> LedgerTx(insertOk)
                                  [] d = "insertFails" -> "aborted"
                                  [] OTHER -> tx
                     rowsAfter == IF d = "deployed"
                                  THEN LedgerRows(Activity("deployment"), insertOk)
                                         \cup {Row("project_deployments", "deployed")}
                                  ELSE txRows
                     faultsAfter == CASE d = "deployed" -> LedgerFaults(insertOk)
                                      [] d = "insertFails" /\ tx = "aborted" -> faults
                                      [] OTHER -> Fault("other")
                 IN /\ tx' = txAfter
                    /\ txRows' = rowsAfter
                    /\ IF d = "throws"
                       THEN pc' = "catch" /\ faults' = faultsAfter /\ UNCHANGED stream
                       ELSE /\ stream' = IF published
                                         THEN Append(stream, [ProgressMsg(95) EXCEPT !.tx = txAfter])
                                         ELSE stream
                            /\ pc' = IF published THEN "m_session" ELSE "catch"
                            /\ faults' = IF published THEN faultsAfter
                                         ELSE [faultsAfter EXCEPT !.publish = @ + 1]
    /\ UNCHANGED <<entry, wvars, dvars, pvars, evars, lvars, jfixed, jlocals, jend>>

\* INSERT INTO container_sessions (... 'completed' ...)
ModificationSession ==
    /\ pc = "m_session"
    /\ \E ok \in BOOL : ClientWrite("commit", {Row("container_sessions", "completed")}, ok)
    /\ UNCHANGED <<entry, wvars, dvars, pvars, evars, lvars, jfixed, jlocals, jend>>

ModificationCommit ==
    /\ pc = "commit"
    /\ jobName = "projectModificationJob"
    /\ \E resolves \in BOOL : CommitTx("m_success", resolves)
    /\ UNCHANGED <<entry, wvars, dvars, pvars, evars, lvars, jfixed, jlocals, outcome, released, teardowns>>

\* await publishSuccess(streamId, successMessage)
ModificationPublishSuccess ==
    /\ pc = "m_success"
    /\ \E published \in BOOL :
         /\ Publish(SuccessMsg, published)
         /\ pc' = IF published THEN "return" ELSE "catch"
         /\ faults' = IF published THEN faults ELSE Fault("publish")
    /\ UNCHANGED <<entry, wvars, dvars, pvars, evars, lvars, jfixed, tx, txRows, jlocals, jend>>

\* ------------------------------------------------------------------------
\* flyioSecretsSyncProcessor and syncCredentialsToFlyio
\* ------------------------------------------------------------------------
\* SELECT app_name FROM project_deployments WHERE ... status = 'deployed'
\* the statuses the pipelines write: 'pending' by the creation handler,
\* 'deployed' by deployProjectToFlyIO
DeploymentStatuses == {"pending", "deployed"}

AnyStatus(rows) == rows

\* SELECT app_name FROM project_deployments WHERE ... AND status = 'deployed'
DeployedRows(rows) == {status \in rows : status = "deployed"}

SyncLookup ==
    /\ pc = "s_lookup"
    /\ \E selectOk \in BOOL :
         LET hasDeployed == DeployedRows(projectDeployments) # {} IN
         /\ pc' = IF ~selectOk THEN "s_failrow"
                  ELSE IF hasDeployed THEN "s_sandbox" ELSE "s_rollback"
         /\ tx' = IF selectOk THEN tx ELSE "aborted"
         /\ faults' = IF ~selectOk THEN Fault("other")
                      ELSE IF hasDeployed THEN faults ELSE Fault("missing")
    /\ UNCHANGED <<entry, wvars, dvars, pvars, evars, lvars, jfixed, stream, txRows, jlocals, jend>>

\* provisionDaytonaContainer (undefined when the create failed), flyctl install
SyncSandbox ==
    /\ pc = "s_sandbox"
    /\ \E created \in BOOL, installed \in BOOL :
         /\ ~created => ~installed
         /\ containerId' = created
         /\ pc' = IF installed THEN "s_secret" ELSE "s_failrow"
         /\ faults' = IF installed THEN faults ELSE Fault("other")
    /\ UNCHANGED <<entry, wvars, dvars, pvars, evars, lvars, jfixed, stream, tx, txRows, authInfo, paymentInfo,
                   databaseInfo, githubPushResult, blueprintId, detectorFallbacks, gitExitCodes, jend>>

\* FLY_API_TOKEN present, flyctl secrets set with exit code 0
SyncSetSecret ==
    /\ pc = "s_secret"
    /\ \E secretSet \in BOOL :
         /\ pc' = IF secretSet THEN "s_successrow" ELSE "s_failrow"
         /\ faults' = IF secretSet THEN faults ELSE Fault("other")
    /\ UNCHANGED <<entry, wvars, dvars, pvars, evars, lvars, jfixed, stream, tx, txRows, jlocals, jend>>

\* INSERT INTO project_actions (... 'flyio-secret-sync' ... 'success' ...), inside the try
SyncSuccessRow ==
    /\ pc = "s_successrow"
    /\ \E insertOk \in BOOL :
         /\ txRows' = LedgerRows(Activity("flyio-secret-sync success"), insertOk)
         /\ tx' = LedgerTx(insertOk)
         /\ faults' = LedgerFaults(insertOk)
         /\ pc' = IF tx = "open" /\ insertOk THEN "s_teardown_success" ELSE "s_failrow"
    /\ UNCHANGED <<entry, wvars, dvars, pvars, evars, lvars, jfixed, stream, jlocals, jend>>

\* catch (error) { INSERT the 'failed' row; return {success: false} }: the insert is
\* not guarded, so its error leaves syncCredentialsToFlyio
SyncFailureRow ==
    /\ pc = "s_failrow"
    /\ \E insertOk \in BOOL :
         /\ txRows' = LedgerRows(Activity("flyio-secret-sync failed"), insertOk)
         /\ tx' = LedgerTx(insertOk)
         /\ faults' = LedgerFaults(insertOk)
         /\ pc' = IF tx = "open" /\ insertOk THEN "s_teardown_failure" ELSE "s_teardown_thrown"
    /\ UNCHANGED <<entry, wvars, dvars, pvars, evars, lvars, jfixed, stream, jlocals, jend>>

\* a finally block whose stopDaytonaContainer call is not guarded
SyncTeardownUnguarded ==
    /\ pc \in {"s_teardown_success", "s_teardown_failure", "s_teardown_thrown"}
    /\ \E stopped \in BOOL :
         /\ ~containerId => stopped
         /\ teardowns' = IF containerId THEN teardowns + 1 ELSE teardowns
         /\ faults' = IF stopped THEN faults ELSE Fault("other")
         /\ pc' = CASE ~stopped -> "catch"
                    [] stopped /\ pc = "s_teardown_success" -> "commit"
                    [] stopped /\ pc = "s_teardown_failure" -> "s_rollback"
                    [] OTHER -> "catch"
    /\ UNCHANGED <<entry, wvars, dvars, pvars, evars, lvars, jfixed, stream, tx, txRows, jlocals, committedRows,
                   outcome, released>>

\* finally { if (containerId) try { stopDaytonaContainer } catch { log } }, then back
\* in the processor: success commits, {success: false} rolls back and throws
SyncTeardown ==
    /\ pc \in {"s_teardown_success", "s_teardown_failure", "s_teardown_thrown"}
    /\ \E stopped \in BOOL :
         /\ ~containerId => stopped
         /\ teardowns' = IF containerId THEN teardowns + 1 ELSE teardowns
         /\ faults' = IF stopped THEN faults ELSE Fault("other")
    /\ pc' = CASE pc = "s_teardown_success" -> "commit"
               [] pc = "s_teardown_failure" -> "s_rollback"
               [] OTHER -> "catch"
    /\ UNCHANGED <<entry, wvars, dvars, pvars, evars, lvars, jfixed, stream, tx, txRows, jlocals, committedRows,
                   outcome, released>>

\* if (result.success) { COMMIT; return {success: true} }
SyncCommit ==
    /\ pc = "commit"
    /\ jobName = "sync-flyio-secrets"
    /\ \E resolves \in BOOL : CommitTx("return", resolves)
    /\ UNCHANGED <<entry, wvars, dvars, pvars, evars, lvars, jfixed, jlocals, outcome, released, teardowns>>

\* else { ROLLBACK; throw new Error(result.error) }, caught by the processor's own catch
SyncRollback ==
    /\ pc = "s_rollback"
    /\ \E resolves \in BOOL :
         /\ tx' = IF resolves /\ tx \in {"open", "aborted"} THEN "rolledback" ELSE tx
         /\ txRows' = IF resolves THEN {} ELSE txRows
         /\ faults' = IF resolves THEN faults ELSE Fault("other")
    /\ pc' = "catch"
    /\ UNCHANGED <<entry, wvars, dvars, pvars, evars, lvars, jfixed, stream, jlocals, jend>>

\* catch (error) { ROLLBACK; throw error } finally { client.release() }: no publish
SyncCatch ==
    /\ pc = "catch"
    /\ jobName = "sync-flyio-secrets"
    /\ \E resolves \in BOOL :
         /\ tx' = IF resolves /\ tx \in {"open", "aborted"} THEN "rolledback" ELSE tx
         /\ txRows' = IF resolves THEN {} ELSE txRows
         /\ faults' = IF resolves THEN faults ELSE Fault("other")
    /\ Reject
    /\ released' = released + 1
    /\ UNCHANGED <<entry, wvars, dvars, pvars, evars, lvars, jfixed, stream, jlocals, committedRows, teardowns>>

\* ------------------------------------------------------------------------
\* Several creation jobs for one projectId: what they leave in the cluster,
\* on the source host and in the control database
\* ------------------------------------------------------------------------
Deliveries == 1..MaxDeliveries

QueuedDelivery ==
    [pc |-> "queued", tx |-> "none", txRows |-> {}, needsDatabase |-> FALSE,
     repoReply |-> "none", outcome |-> "running"]

ProjectIdle ==
    /\ deliveries = [d \in Deliveries |-> QueuedDelivery]
    /\ clusterDatabase = FALSE
    /\ githubRepo = "absent"
    /\ controlDb = [project_databases |-> 0, project_github_repos |-> 0]

\* the handler's catch block is entered; a failed statement on the pipeline
\* client leaves the transaction aborted
Thrown(job, clientStatementFailed) ==
    [job EXCEPT !.pc = "catch",
                !.tx = IF clientStatementFailed /\ job.tx = "open" THEN "aborted" ELSE job.tx]

\* a swallowed failure of a statement on the pipeline client (trackActivity
\* inside try/catch): the handler goes on, the transaction is aborted
Swallowed(job, failed) ==
    [job EXCEPT !.tx = IF failed /\ job.tx = "open" THEN "aborted" ELSE job.tx]

\* pool.connect() and BEGIN of one more delivery of the creation job; the
\* queue hands deliveries out in order, their handlers then run concurrently
ProjectBegin ==
    /\ entry = "project"
    /\ \E d \in Deliveries, ok \in BOOL :
         /\ deliveries[d].pc = "queued"
         /\ (d > 1) => deliveries[d - 1].pc # "queued"
         /\ deliveries' = [deliveries EXCEPT ![d] =
                IF ok THEN [@ EXCEPT !.pc = "database", !.tx = "open"]
                      ELSE [@ EXCEPT !.pc = "catch"]]
    /\ UNCHANGED <<entry, wvars, dvars, evars, lvars, jvars, clusterDatabase, githubRepo, controlDb>>

ProvisionSteps == {"ok", "createFails", "insertFails", "activityFails"}

\* detectDatabaseNeed, then provisionAndCreateTables when a database is needed:
\* CREATE DATABASE on the cluster (outside the transaction; the cluster refuses
\* a name that exists), INSERT project_databases with is_active = true on the
\* pipeline client, the tables, and the swallowed database_created activity
ProvisionAndCreateTables ==
    /\ entry = "project"
    /\ \E d \in Deliveries, needsDatabase \in BOOL, step \in ProvisionSteps :
         LET job == [deliveries[d] EXCEPT !.needsDatabase = needsDatabase]
             created == ~clusterDatabase /\ step # "createFails"
             withRow == [job EXCEPT !.txRows = @ \cup {"project_databases"}]
         IN /\ job.pc = "database"
            /\ ~needsDatabase => step = "ok"
            /\ clusterDatabase /\ needsDatabase => step = "createFails"
            /\ clusterDatabase' = IF needsDatabase /\ created THEN TRUE ELSE clusterDatabase
            /\ deliveries' = [deliveries EXCEPT ![d] =
                 IF ~needsDatabase THEN [job EXCEPT !.pc = "container"]
                 ELSE IF ~created THEN Thrown(job, FALSE)
                 ELSE IF step = "insertFails" THEN Thrown(job, TRUE)
                 ELSE [Swallowed(withRow, step = "activityFails") EXCEPT !.pc = "container"]]
    /\ UNCHANGED <<entry, wvars, dvars, evars, lvars, jvars, githubRepo, controlDb>>

\* getOrProvisionContainer (INSERT container_sessions on the pipeline client),
\* the agentic loop, the deployment files and the project_deployments row: any
\* of them may throw, and a statement on an aborted transaction always does
ProjectContainerAndLoop ==
    /\ entry = "project"
    /\ \E d \in Deliveries, ok \in BOOL, files \in BOOL :
         LET job == deliveries[d]
         IN /\ job.pc = "container"
            /\ (job.tx = "aborted") => ~ok
            /\ ~ok => ~files
            /\ deliveries' = [deliveries EXCEPT ![d] =
                 IF ~ok THEN Thrown(job, FALSE)
                 ELSE [job EXCEPT !.pc = IF files THEN "push" ELSE "credentials"]]
    /\ UNCHANGED <<entry, wvars, dvars, evars, lvars, jvars, clusterDatabase, githubRepo, controlDb>>

\* createGitHubRepo: POST /user/repos.  A 422 "already exists" answer is turned
\* into the URL of the existing repository; any other error is thrown.
CreateGitHubRepo(remote, apiOk) ==
    IF ~apiOk THEN "error"
    ELSE IF remote = "absent" THEN "created"
    ELSE "exists"

\* git push origin main from a sandbox whose history starts at its own git init:
\* the host takes it when the repository has no main branch yet and refuses it
\* (exit code not 0) when another sandbox has pushed main
PushAcceptedAlways(remote) == TRUE

PushAccepted(remote) == remote # "pushed"

PushSteps == {"ok", "apiFails", "gitFails", "pushFails", "insertFails", "activityFails"}

\* pushToGitHubDeterministic in a fresh sandbox (git remote -v shows no origin):
\* create the repository, init / add / commit / remote add / branch, push,
\* INSERT project_github_repos with is_active = true, INSERT github_push_history,
\* and the swallowed github_push activity
PushToGitHubDeterministic ==
    /\ entry = "project"
    /\ \E d \in Deliveries, step \in PushSteps :
         LET reply == CreateGitHubRepo(githubRepo, step # "apiFails")
             remote == IF reply = "created" THEN "empty" ELSE githubRepo
             job == [deliveries[d] EXCEPT !.repoReply = reply]
             pushed == step \notin {"apiFails", "gitFails", "pushFails"} /\ PushAccepted(remote)
             withRow == [job EXCEPT !.txRows = @ \cup {"project_github_repos"}]
         IN /\ job.pc = "push"
            /\ ~PushAccepted(remote) => step \in {"apiFails", "gitFails", "pushFails"}
            /\ githubRepo' = IF pushed THEN "pushed" ELSE remote
            /\ deliveries' = [deliveries EXCEPT ![d] =
                 IF ~pushed THEN Thrown(job, FALSE)
                 ELSE IF step = "insertFails" THEN Thrown(job, TRUE)
                 ELSE [Swallowed(withRow, step = "activityFails") EXCEPT !.pc = "credentials"]]
    /\ UNCHANGED <<entry, wvars, dvars, evars, lvars, jvars, clusterDatabase, controlDb>>

\* the object-store upload, the api_blueprints INSERT when the loop returned a
\* blueprint, then storeEnvVarRequirements and storeCredentialPlaceholders,
\* whose failures are swallowed
ProjectStoreCredentials ==
    /\ entry = "project"
    /\ \E d \in Deliveries, hasBlueprint \in BOOL, ok \in BOOL, swallowedFailure \in BOOL :
         LET job == deliveries[d]
         IN /\ job.pc = "credentials"
            /\ (hasBlueprint /\ job.tx = "aborted") => ~ok
            /\ ~ok => ~swallowedFailure
            /\ deliveries' = [deliveries EXCEPT ![d] =
                 IF ~ok THEN Thrown(job, hasBlueprint)
                 ELSE [Swallowed(job, swallowedFailure) EXCEPT !.pc = "commit"]]
    /\ UNCHANGED <<entry, wvars, dvars, evars, lvars, jvars, clusterDatabase, githubRepo, controlDb>>

\* rows of one transaction that become visible in the control database
ActiveRows(table, rows) == IF table \in rows THEN 1 ELSE 0

\* await client.query('COMMIT'): an open transaction commits its rows, an
\* aborted one is rolled back by the server and the call still resolves
ProjectCommit ==
    /\ entry = "project"
    /\ \E d \in Deliveries, resolves \in BOOL :
         LET job == deliveries[d]
             commits == resolves /\ job.tx = "open"
         IN /\ job.pc = "commit"
            /\ controlDb' = IF commits
                 THEN [project_databases |->
                           controlDb.project_databases + ActiveRows("project_databases", job.txRows),
                       project_github_repos |->
                           controlDb.project_github_repos + ActiveRows("project_github_repos", job.txRows)]
                 ELSE controlDb
            /\ deliveries' = [deliveries EXCEPT ![d] =
                 IF ~resolves THEN Thrown(job, FALSE)
                 ELSE [job EXCEPT !.pc = "success", !.txRows = {},
                                  !.tx = IF commits THEN "committed" ELSE "rolledback"]]
    /\ UNCHANGED <<entry, wvars, dvars, evars, lvars, jvars, clusterDatabase, githubRepo>>

\* the blueprint message and publishSuccess after COMMIT, then the handler returns
ProjectSuccess ==
    /\ entry = "project"
    /\ \E d \in Deliveries, published \in BOOL :
         LET job == deliveries[d]
         IN /\ job.pc = "success"
            /\ deliveries' = [deliveries EXCEPT ![d] =
                 IF published THEN [job EXCEPT !.pc = "end", !.outcome = "resolved"]
                 ELSE Thrown(job, FALSE)]
    /\ UNCHANGED <<entry, wvars, dvars, evars, lvars, jvars, clusterDatabase, githubRepo, controlDb>>

\* catch: ROLLBACK (a no-op after COMMIT), publishError, rethrow
ProjectCatch ==
    /\ entry = "project"
    /\ \E d \in Deliveries :
         LET job == deliveries[d]
         IN /\ job.pc = "catch"
            /\ deliveries' = [deliveries EXCEPT ![d] =
                 [job EXCEPT !.pc = "end", !.outcome = "rejected", !.txRows = {},
                             !.tx = IF job.tx \in {"open", "aborted"} THEN "rolledback" ELSE job.tx]]
    /\ UNCHANGED <<entry, wvars, dvars, evars, lvars, jvars, clusterDatabase, githubRepo, controlDb>>

\* ------------------------------------------------------------------------
\* The two pathways to a project database: provisionAndCreateTables
\* (worker/utils/databaseProvisioner.js) and executeDevDatabaseQueries
\* (worker/utils/devDatabaseExecutor.js), each called by a handler that holds an
\* open transaction on the control database and ends it after the call
\* ------------------------------------------------------------------------
\* A name is a sequence of characters; the fixed prefix is kept as one unit.
NamePrefix == "turbobackend_proj_"
ProjectIds == {<<"p", "1">>, <<"p", "-", "1">>, <<"P", "1">>, <<"P", "-", "q">>}
TableNames == {"users", "posts"}

\* String.prototype.toLowerCase, character by character
LowerChar(c) == CASE c = "P" -> "p" [] c = "Q" -> "q" [] OTHER -> c
ToLowerCase(s) == [i \in 1..Len(s) |-> LowerChar(s[i])]

\* projectId.replace(/-/g, '_')
ReplaceHyphens(s) == [i \in 1..Len(s) |-> IF s[i] = "-" THEN "_" ELSE s[i]]

\* `turbobackend_proj_${projectId.replace(/-/g, '_')}`.toLowerCase()
ProvisionerDbName(id) == ToLowerCase(<<NamePrefix>> \o ReplaceHyphens(id))

\* `turbobackend_proj_${projectId.replace(/-/g, '_')}`
DevDbName(id) == <<NamePrefix>> \o ReplaceHyphens(id)

\* the server folds an unquoted identifier of a statement to lower case; a name
\* given as the database parameter of a connection is taken as it is
FoldIdentifier(name) == ToLowerCase(name)

DatabaseRow(name) ==
    [table |-> "project_databases", call |-> dcalls, value |-> name, status |-> "active"]
QueryRow(tableName, status) ==
    [table |-> "generated_queries", call |-> dcalls, value |-> <<tableName>>, status |-> status]
ActivityRow(actionType) ==
    [table |-> "project_actions", call |-> dcalls, value |-> <<actionType>>, status |-> "success"]

TableExists(tableName) ==
    \E i \in DOMAIN (projectTables \o pendingTables) :
       (projectTables \o pendingTables)[i].name = tableName

DatabaseIdle ==
    /\ projectId = <<>> /\ schemaTables = <<>>
    /\ dpc = "off" /\ dcalls = 0 /\ dbName = <<>>
    /\ clusterDatabases = {} /\ outerTx = "none" /\ outerRows = <<>> /\ catalog = <<>>
    /\ projectTx = "none" /\ pendingTables = <<>> /\ projectTables = <<>>
    /\ checkedOut = 0 /\ openPools = 0 /\ attempts = 0 /\ derror = "none" /\ surfaced = <<>>

\* the handler has begun its transaction and calls provisionAndCreateTables
ProvisionStart ==
    /\ dpc = "idle" /\ dcalls < MaxPathwayCalls
    /\ dcalls' = dcalls + 1
    /\ dbName' = ProvisionerDbName(projectId)
    /\ outerTx' = "open" /\ outerRows' = <<>>
    /\ attempts' = 0 /\ derror' = "none" /\ surfaced' = <<>>
    /\ projectTx' = "none"
    /\ dpc' = "p_create"
    /\ UNCHANGED <<entry, wvars, evars, lvars, jvars, pvars, projectId, schemaTables, clusterDatabases,
                   catalog, pendingTables, projectTables, checkedOut, openPools>>

\* await adminConnection.query(`CREATE DATABASE ${dbName}`): refused when the
\* database exists
ProvisionCreateDatabase ==
    /\ dpc = "p_create"
    /\ \E accepted \in BOOL :
         /\ (FoldIdentifier(dbName) \in clusterDatabases) => ~accepted
         /\ IF accepted
            THEN /\ clusterDatabases' = clusterDatabases \cup {FoldIdentifier(dbName)}
                 /\ dpc' = "p_insert"
                 /\ UNCHANGED derror
            ELSE /\ derror' = "CREATE DATABASE failed"
                 /\ dpc' = "p_wrap"
                 /\ UNCHANGED clusterDatabases
    /\ UNCHANGED <<entry, wvars, evars, lvars, jvars, pvars, projectId, schemaTables, dcalls, dbName,
                   outerTx, outerRows, catalog, projectTx, pendingTables, projectTables,
                   checkedOut, openPools, attempts, surfaced>>

\* INSERT INTO project_databases ... on the caller's client
ProvisionInsertDatabase ==
    /\ dpc = "p_insert"
    /\ \E inserted \in BOOL :
         IF inserted
         THEN /\ outerRows' = Append(outerRows, DatabaseRow(dbName))
              /\ dpc' = "p_connect"
              /\ UNCHANGED <<outerTx, derror>>
         ELSE /\ outerTx' = "aborted"
              /\ derror' = "INSERT project_databases failed"
              /\ dpc' = "p_wrap"
              /\ UNCHANGED outerRows
    /\ UNCHANGED <<entry, wvars, evars, lvars, jvars, pvars, projectId, schemaTables, dcalls, dbName,
                   clusterDatabases, catalog, projectTx, pendingTables, projectTables,
                   checkedOut, openPools, attempts, surfaced>>

\* new Pool({database: dbName}); await projectDbConnection.connect();
\* try { await projectDbClient.query('BEGIN') ...
ProvisionConnect ==
    /\ dpc = "p_connect"
    /\ \E connected \in BOOL, began \in BOOL :
         /\ (dbName \notin clusterDatabases) => ~connected
         /\ ~connected => began
         /\ openPools' = openPools + 1
         /\ IF ~connected
            THEN /\ derror' = "connect failed"
                 /\ dpc' = "p_wrap"
                 /\ UNCHANGED <<checkedOut, projectTx>>
            ELSE /\ checkedOut' = checkedOut + 1
                 /\ projectTx' = IF began THEN "open" ELSE "none"
                 /\ derror' = IF began THEN derror ELSE "BEGIN failed"
                 /\ dpc' = IF began THEN "p_tables" ELSE "p_rollback"
    /\ UNCHANGED <<entry, wvars, evars, lvars, jvars, pvars, projectId, schemaTables, dcalls, dbName,
                   clusterDatabases, outerTx, outerRows, catalog, pendingTables, projectTables,
                   attempts, surfaced>>

\* one turn of "for (const table of schemaDesign.tables)":
\* await projectDbClient.query(table.createQuery)
ProvisionCreateTable ==
    /\ dpc = "p_tables"
    /\ attempts < Len(schemaTables)
    /\ attempts' = attempts + 1
    /\ \E created \in BOOL :
         /\ TableExists(schemaTables[attempts + 1]) => ~created
         /\ IF created
            THEN /\ pendingTables' = Append(pendingTables,
                                           [name |-> schemaTables[attempts + 1], call |-> dcalls])
                 /\ dpc' = "p_record"
                 /\ UNCHANGED <<projectTx, derror>>
            ELSE /\ projectTx' = "aborted"
                 /\ derror' = "createQuery failed"
                 /\ dpc' = "p_rollback"
                 /\ UNCHANGED pendingTables
    /\ UNCHANGED <<entry, wvars, evars, lvars, jvars, pvars, projectId, schemaTables, dcalls, dbName,
                   clusterDatabases, outerTx, outerRows, catalog, projectTables,
                   checkedOut, openPools, surfaced>>

\* ... INSERT INTO generated_queries (..., 'executed', ...) on the caller's client
ProvisionRecordQuery ==
    /\ dpc = "p_record"
    /\ \E inserted \in BOOL :
         IF inserted
         THEN /\ outerRows' = Append(outerRows, QueryRow(schemaTables[attempts], "executed"))
              /\ dpc' = "p_tables"
              /\ UNCHANGED <<outerTx, derror>>
         ELSE /\ outerTx' = "aborted"
              /\ derror' = "INSERT generated_queries failed"
              /\ dpc' = "p_rollback"
              /\ UNCHANGED outerRows
    /\ UNCHANGED <<entry, wvars, evars, lvars, jvars, pvars, projectId, schemaTables, dcalls, dbName,
                   clusterDatabases, catalog, projectTx, pendingTables, projectTables,
                   checkedOut, openPools, attempts, surfaced>>

\* a provisioner that commits each table as soon as it is created
ProvisionCommitEachTable ==
    /\ dpc = "p_tables"
    /\ projectTables' = projectTables \o pendingTables
    /\ pendingTables' = <<>>
    /\ IF attempts = Len(schemaTables)
       THEN projectTx' = "committed" /\ dpc' = "p_finally"
       ELSE projectTx' = "open" /\ dpc' = "p_tables" /\ pendingTables # <<>>
    /\ UNCHANGED <<entry, wvars, evars, lvars, jvars, pvars, projectId, schemaTables, dcalls, dbName,
                   clusterDatabases, outerTx, outerRows, catalog, checkedOut, openPools,
                   attempts, derror, surfaced>>

\* await projectDbClient.query('COMMIT') after the last table; a rejected COMMIT
\* is a lost connection, which commits nothing
ProvisionCommit ==
    /\ dpc = "p_tables"
    /\ attempts = Len(schemaTables)
    /\ \E resolves \in BOOL :
         IF resolves
         THEN /\ projectTables' = projectTables \o pendingTables
              /\ pendingTables' = <<>>
              /\ projectTx' = "committed"
              /\ dpc' = "p_finally"
              /\ UNCHANGED derror
         ELSE /\ derror' = "COMMIT failed"
              /\ dpc' = "p_rollback"
              /\ UNCHANGED <<projectTables, pendingTables, projectTx>>
    /\ UNCHANGED <<entry, wvars, evars, lvars, jvars, pvars, projectId, schemaTables, dcalls, dbName,
                   clusterDatabases, outerTx, outerRows, catalog, checkedOut, openPools,
                   attempts, surfaced>>

\* catch (error) { await <project client>.query('ROLLBACK'); throw error }: in both
\* pathways.  When ROLLBACK rejects, its error replaces the caught one and the
\* transaction stays as it is until the connection is closed.
ProjectDbRollback ==
    /\ dpc \in {"p_rollback", "d_rollback"}
    /\ \E resolves \in BOOL :
         IF resolves
         THEN /\ pendingTables' = <<>>
              /\ projectTx' = IF projectTx \in {"open", "aborted"} THEN "rolledback" ELSE projectTx
              /\ UNCHANGED derror
         ELSE /\ derror' = "ROLLBACK failed after " \o derror
              /\ UNCHANGED <<pendingTables, projectTx>>
    /\ dpc' = IF dpc = "p_rollback" THEN "p_finally" ELSE "d_finally"
    /\ UNCHANGED <<entry, wvars, evars, lvars, jvars, pvars, projectId, schemaTables, dcalls, dbName,
                   clusterDatabases, outerTx, outerRows, catalog, projectTables,
                   checkedOut, openPools, attempts, surfaced>>

\* finally { <project client>.release(); await <project pool>.end() }: closing the
\* connection ends a transaction that is still open, without committing it
ProjectDbFinally ==
    /\ dpc \in {"p_finally", "d_finally"}
    /\ checkedOut' = checkedOut - 1
    /\ openPools' = openPools - 1
    /\ pendingTables' = <<>>
    /\ projectTx' = IF projectTx \in {"open", "aborted"} THEN "rolledback" ELSE projectTx
    /\ dpc' = CASE dpc = "p_finally" /\ derror = "none" -> "p_track"
                [] dpc = "p_finally" -> "p_wrap"
                [] derror = "none" -> "d_returned"
                [] OTHER -> "d_threw"
    /\ surfaced' = IF dpc = "d_finally" /\ derror # "none" THEN <<derror>> ELSE surfaced
    /\ UNCHANGED <<entry, wvars, evars, lvars, jvars, pvars, projectId, schemaTables, dcalls, dbName,
                   clusterDatabases, outerTx, outerRows, catalog, projectTables,
                   attempts, derror>>

\* try { await trackActivity({actionType: 'database_created', client}) } catch { log };
\* return { databaseId, dbName, ... }
ProvisionTrack ==
    /\ dpc = "p_track"
    /\ \E inserted \in BOOL :
         IF inserted
         THEN outerRows' = Append(outerRows, ActivityRow("database_created")) /\ UNCHANGED outerTx
         ELSE outerTx' = "aborted" /\ UNCHANGED outerRows
    /\ dpc' = "p_returned"
    /\ UNCHANGED <<entry, wvars, evars, lvars, jvars, pvars, projectId, schemaTables, dcalls, dbName,
                   clusterDatabases, catalog, projectTx, pendingTables, projectTables,
                   checkedOut, openPools, attempts, derror, surfaced>>

\* catch (error) { throw new Error(`Database provisioning failed: ${error.message}`) }
ProvisionWrap ==
    /\ dpc = "p_wrap"
    /\ surfaced' = <<"Database provisioning failed: ", derror>>
    /\ dpc' = "p_threw"
    /\ UNCHANGED <<entry, wvars, evars, lvars, jvars, pvars, projectId, schemaTables, dcalls, dbName,
                   clusterDatabases, outerTx, outerRows, catalog, projectTx, pendingTables,
                   projectTables, checkedOut, openPools, attempts, derror>>

\* the call returned: the handler goes on to its COMMIT, which ends an aborted
\* transaction with a rollback
CallerCommit ==
    /\ dpc \in {"p_returned", "d_returned"}
    /\ catalog' = IF outerTx = "open" THEN catalog \o outerRows ELSE catalog
    /\ outerTx' = IF outerTx = "open" THEN "committed" ELSE "rolledback"
    /\ outerRows' = <<>>
    /\ dpc' = "idle"
    /\ UNCHANGED <<entry, wvars, evars, lvars, jvars, pvars, projectId, schemaTables, dcalls, dbName,
                   clusterDatabases, projectTx, pendingTables, projectTables,
                   checkedOut, openPools, attempts, derror, surfaced>>

\* the call threw: the handler's catch block issues ROLLBACK (a ROLLBACK that
\* rejects is a lost connection, and the server drops the transaction)
CallerRollback ==
    /\ dpc \in {"p_threw", "d_threw"}
    /\ outerTx' = "rolledback"
    /\ outerRows' = <<>>
    /\ dpc' = "idle"
    /\ UNCHANGED <<entry, wvars, evars, lvars, jvars, pvars, projectId, schemaTables, dcalls, dbName,
                   clusterDatabases, catalog, projectTx, pendingTables, projectTables,
                   checkedOut, openPools, attempts, derror, surfaced>>

\* a caller has begun its transaction and calls executeDevDatabaseQueries
DevStart ==
    /\ dpc = "idle" /\ dcalls < MaxPathwayCalls
    /\ dcalls' = dcalls + 1
    /\ dbName' = <<>>
    /\ outerTx' = "open" /\ outerRows' = <<>>
    /\ attempts' = 0 /\ derror' = "none" /\ surfaced' = <<>>
    /\ projectTx' = "none"
    /\ dpc' = "d_lookup"
    /\ UNCHANGED <<entry, wvars, evars, lvars, jvars, pvars, projectId, schemaTables, clusterDatabases,
                   catalog, pendingTables, projectTables, checkedOut, openPools>>

ActiveDatabases(rows) ==
    SelectSeq(rows, LAMBDA row : row.table = "project_databases" /\ row.status = "active")

\* SELECT * FROM project_databases WHERE project_id = $1 AND is_active = true;
\* projectDb = rows[0] when there is one
DevLookup ==
    /\ dpc = "d_lookup"
    /\ \E selected \in BOOL :
         IF ~selected
         THEN /\ outerTx' = "aborted"
              /\ derror' = "SELECT failed"
              /\ surfaced' = <<"SELECT failed">>
              /\ dpc' = "d_threw"
              /\ UNCHANGED dbName
         ELSE /\ IF ActiveDatabases(catalog) = <<>>
                 THEN dbName' = DevDbName(projectId) /\ dpc' = "d_create"
                 ELSE dbName' = ActiveDatabases(catalog)[1].value /\ dpc' = "d_connect"
              /\ UNCHANGED <<outerTx, derror, surfaced>>
    /\ UNCHANGED <<entry, wvars, evars, lvars, jvars, pvars, projectId, schemaTables, dcalls,
                   clusterDatabases, outerRows, catalog, projectTx, pendingTables,
                   projectTables, checkedOut, openPools, attempts>>

\* CREATE DATABASE ${dbName}; INSERT INTO project_databases (... db_name = dbName ...)
DevCreateDatabase ==
    /\ dpc = "d_create"
    /\ \E accepted \in BOOL, inserted \in BOOL :
         /\ (FoldIdentifier(dbName) \in clusterDatabases) => ~accepted
         /\ ~accepted => inserted
         /\ clusterDatabases' = IF accepted THEN clusterDatabases \cup {FoldIdentifier(dbName)}
                                ELSE clusterDatabases
         /\ outerRows' = IF accepted /\ inserted THEN Append(outerRows, DatabaseRow(dbName))
                         ELSE outerRows
         /\ outerTx' = IF accepted /\ ~inserted THEN "aborted" ELSE outerTx
         /\ derror' = CASE ~accepted -> "CREATE DATABASE failed"
                        [] ~inserted -> "INSERT project_databases failed"
                        [] OTHER -> derror
         /\ surfaced' = IF accepted /\ inserted THEN surfaced ELSE <<derror'>>
         /\ dpc' = IF accepted /\ inserted THEN "d_connect" ELSE "d_threw"
    /\ UNCHANGED <<entry, wvars, evars, lvars, jvars, pvars, projectId, schemaTables, dcalls, dbName,
                   catalog, projectTx, pendingTables, projectTables, checkedOut, openPools,
                   attempts>>

\* new Pool({database: projectDb.db_name}); await devDbConnection.connect();
\* try { await devClient.query('BEGIN') ...
DevConnect ==
    /\ dpc = "d_connect"
    /\ \E connected \in BOOL, began \in BOOL :
         /\ (dbName \notin clusterDatabases) => ~connected
         /\ ~connected => began
         /\ openPools' = openPools + 1
         /\ IF ~connected
            THEN /\ derror' = "connect failed"
                 /\ surfaced' = <<"connect failed">>
                 /\ dpc' = "d_threw"
                 /\ UNCHANGED <<checkedOut, projectTx>>
            ELSE /\ checkedOut' = checkedOut + 1
                 /\ projectTx' = IF began THEN "open" ELSE "none"
                 /\ derror' = IF began THEN derror ELSE "BEGIN failed"
                 /\ dpc' = IF began THEN "d_queries" ELSE "d_rollback"
                 /\ UNCHANGED surfaced
    /\ UNCHANGED <<entry, wvars, evars, lvars, jvars, pvars, projectId, schemaTables, dcalls, dbName,
                   clusterDatabases, outerTx, outerRows, catalog, pendingTables, projectTables,
                   attempts>>

\* one turn of "for (const queryObj of queries)": the query on the project
\* client, then the 'executed' row; the inner catch writes the 'failed' row and
\* rethrows
DevQuery ==
    /\ dpc = "d_queries"
    /\ attempts < Len(schemaTables)
    /\ attempts' = attempts + 1
    /\ \E executed \in BOOL, inserted \in BOOL :
         /\ TableExists(schemaTables[attempts + 1]) => ~executed
         /\ pendingTables' = IF executed
                             THEN Append(pendingTables,
                                         [name |-> schemaTables[attempts + 1], call |-> dcalls])
                             ELSE pendingTables
         /\ projectTx' = IF executed THEN projectTx ELSE "aborted"
         /\ outerRows' = IF inserted
                         THEN Append(outerRows,
                                     QueryRow(schemaTables[attempts + 1],
                                              IF executed THEN "executed" ELSE "failed"))
                         ELSE outerRows
         /\ outerTx' = IF inserted THEN outerTx ELSE "aborted"
         /\ derror' = CASE ~inserted -> "INSERT generated_queries failed"
                        [] ~executed -> "query failed"
                        [] OTHER -> derror
         /\ dpc' = IF executed /\ inserted THEN "d_queries" ELSE "d_rollback"
    /\ UNCHANGED <<entry, wvars, evars, lvars, jvars, pvars, projectId, schemaTables, dcalls, dbName,
                   clusterDatabases, catalog, projectTables, checkedOut, openPools, surfaced>>

\* await devClient.query('COMMIT'); the queries_executed activity (its error is
\* caught) when there were results; return
DevCommit ==
    /\ dpc = "d_queries"
    /\ attempts = Len(schemaTables)
    /\ \E resolves \in BOOL, inserted \in BOOL :
         /\ (~resolves \/ attempts = 0) => inserted
         /\ IF resolves
            THEN /\ projectTables' = projectTables \o pendingTables
                 /\ pendingTables' = <<>>
                 /\ projectTx' = "committed"
                 /\ outerRows' = IF attempts > 0 /\ inserted
                                 THEN Append(outerRows, ActivityRow("queries_executed"))
                                 ELSE outerRows
                 /\ outerTx' = IF inserted THEN outerTx ELSE "aborted"
                 /\ dpc' = "d_finally"
                 /\ UNCHANGED derror
            ELSE /\ derror' = "COMMIT failed"
                 /\ dpc' = "d_rollback"
                 /\ UNCHANGED <<projectTables, pendingTables, projectTx, outerRows, outerTx>>
    /\ UNCHANGED <<entry, wvars, evars, lvars, jvars, pvars, projectId, schemaTables, dcalls, dbName,
                   clusterDatabases, catalog, checkedOut, openPools, attempts, surfaced>>

\* ------------------------------------------------------------------------
\* The worker process: the shared publisher and its ready barrier
\* (worker/pubsub-handlers.js), startWorker and shutdown (worker/index.js)
\* ------------------------------------------------------------------------
WorkerJobs == 1..MaxWorkerJobs

QueuedJob == [state |-> "waiting", progress |-> 0, terminal |-> "none"]

WorkerIdle ==
    /\ proc = "off" /\ exitCode = 0 - 1 /\ production = TRUE
    /\ conn = "connecting" /\ publisherReady = "pending" /\ listeners = TRUE
    /\ wjobs = [j \in WorkerJobs |-> QueuedJob]
    /\ closing = {} /\ closedOrder = <<>>

\* the publisher connection emits 'error' (the server cannot be reached; the
\* client keeps retrying).  publisher.once("error", reject) settles the barrier
\* when it is still pending; startWorker, which awaits the barrier first of all,
\* then rejects and its catch calls process.exit(1).
PublisherError ==
    /\ proc \notin {"off", "exited"}
    /\ conn = "connecting"
    /\ IF listeners /\ publisherReady = "pending"
       THEN /\ publisherReady' = "rejected"
            /\ proc' = "exited" /\ exitCode' = 1 /\ conn' = "closed"
       ELSE UNCHANGED <<publisherReady, proc, exitCode, conn>>
    /\ UNCHANGED <<entry, evars, lvars, jvars, pvars, dvars, production, listeners, wjobs,
                   closing, closedOrder>>

\* the publisher connection emits 'ready': publisher.once("ready", resolve)
PublisherReady ==
    /\ proc \notin {"off", "exited"}
    /\ conn = "connecting"
    /\ conn' = "ready"
    /\ publisherReady' = IF listeners /\ publisherReady = "pending" THEN "resolved"
                         ELSE publisherReady
    /\ UNCHANGED <<entry, evars, lvars, jvars, pvars, dvars, proc, exitCode, production,
                   listeners, wjobs, closing, closedOrder>>

\* the connection is lost after it was ready; the client reconnects
PublisherDrop ==
    /\ proc \notin {"off", "exited"}
    /\ conn = "ready"
    /\ conn' = "connecting"
    /\ UNCHANGED <<entry, evars, lvars, jvars, pvars, dvars, proc, exitCode, production,
                   publisherReady, listeners, wjobs, closing, closedOrder>>

\* await waitForPublisherReady() returned: the Worker and QueueEvents are
\* created and the signal handlers registered
StartWorker ==
    /\ proc = "starting"
    /\ publisherReady = "resolved"
    /\ proc' = "running"
    /\ UNCHANGED <<entry, evars, lvars, jvars, pvars, dvars, exitCode, production, conn,
                   publisherReady, listeners, wjobs, closing, closedOrder>>

\* the Worker takes a waiting job and calls its processor (the configured
\* concurrency is at least the number of jobs of the model)
JobStart ==
    /\ proc = "running"
    /\ \E j \in WorkerJobs :
         /\ wjobs[j].state = "waiting"
         /\ wjobs' = [wjobs EXCEPT ![j].state = "active"]
    /\ UNCHANGED <<entry, evars, lvars, jvars, pvars, dvars, proc, exitCode, production, conn,
                   publisherReady, listeners, closing, closedOrder>>

\* publishToChannel: await waitForPublisherReady(); await publisher.publish(...).
\* On a closed connection publish rejects; while the client reconnects the
\* command waits in its offline queue.
CanPublish == publisherReady = "resolved" /\ conn \in {"ready", "closed"}

\* a running job publishes a progress update; when that rejects, the handler's
\* catch block publishes the terminal error, which rejects as well
JobPublishProgress ==
    /\ proc \notin {"off", "exited"}
    /\ CanPublish
    /\ \E j \in WorkerJobs :
         /\ wjobs[j].state = "active" /\ wjobs[j].progress < MaxProgress
         /\ wjobs' = IF conn = "ready"
                     THEN [wjobs EXCEPT ![j].progress = @ + 1]
                     ELSE [wjobs EXCEPT ![j].state = "done", ![j].terminal = "rejected"]
    /\ UNCHANGED <<entry, evars, lvars, jvars, pvars, dvars, proc, exitCode, production, conn,
                   publisherReady, listeners, closing, closedOrder>>

\* a running job publishes its terminal message and its processor settles
JobPublishTerminal ==
    /\ proc \notin {"off", "exited"}
    /\ CanPublish
    /\ \E j \in WorkerJobs :
         /\ wjobs[j].state = "active"
         /\ wjobs' = [wjobs EXCEPT ![j].state = "done",
                                   ![j].terminal = IF conn = "ready" THEN "delivered"
                                                   ELSE "rejected"]
    /\ UNCHANGED <<entry, evars, lvars, jvars, pvars, dvars, proc, exitCode, production, conn,
                   publisherReady, listeners, closing, closedOrder>>

\* SIGINT / SIGTERM: shutdown() starts
Signal ==
    /\ proc = "running"
    /\ proc' = IF production THEN "closeAll" ELSE "clearing"
    /\ UNCHANGED <<entry, evars, lvars, jvars, pvars, dvars, exitCode, production, conn,
                   publisherReady, listeners, wjobs, closing, closedOrder>>

\* if (NODE_ENV !== 'production') try { queue.obliterate({force: true}); queue.close() }
\* catch { log }
ClearQueue ==
    /\ proc = "clearing"
    /\ \E obliterated \in BOOL :
         wjobs' = [j \in WorkerJobs |->
                     IF obliterated /\ wjobs[j].state = "waiting"
                     THEN [wjobs[j] EXCEPT !.state = "cleared"] ELSE wjobs[j]]
    /\ proc' = "closeAll"
    /\ UNCHANGED <<entry, evars, lvars, jvars, pvars, dvars, exitCode, production, conn,
                   publisherReady, listeners, closing, closedOrder>>

\* Promise.allSettled([worker.close(), queueEvents.close(), closePubSub()]): the
\* three calls are made one after the other without awaiting, so all three closes
\* are under way at once
CloseAll ==
    /\ proc = "closeAll"
    /\ closing' = {"worker", "queueEvents", "publisher"}
    /\ proc' = "closing"
    /\ UNCHANGED <<entry, evars, lvars, jvars, pvars, dvars, exitCode, production, conn,
                   publisherReady, listeners, wjobs, closedOrder>>

\* worker.close(): takes no new job and resolves when the active jobs have finished
CloseWorker ==
    /\ proc = "closing"
    /\ "worker" \in closing
    /\ \A j \in WorkerJobs : wjobs[j].state # "active"
    /\ closing' = closing \ {"worker"}
    /\ closedOrder' = Append(closedOrder, "worker")
    /\ UNCHANGED <<entry, evars, lvars, jvars, pvars, dvars, proc, exitCode, production, conn,
                   publisherReady, listeners, wjobs>>

\* queueEvents.close()
CloseQueueEvents ==
    /\ proc = "closing"
    /\ "queueEvents" \in closing
    /\ closing' = closing \ {"queueEvents"}
    /\ closedOrder' = Append(closedOrder, "queueEvents")
    /\ UNCHANGED <<entry, evars, lvars, jvars, pvars, dvars, proc, exitCode, production, conn,
                   publisherReady, listeners, wjobs>>

\* closePubSub(): publisher.removeAllListeners(); await publisher.quit()
ClosePubSub ==
    /\ proc = "closing"
    /\ "publisher" \in closing
    /\ listeners' = FALSE
    /\ conn' = "closed"
    /\ closing' = closing \ {"publisher"}
    /\ closedOrder' = Append(closedOrder, "publisher")
    /\ UNCHANGED <<entry, evars, lvars, jvars, pvars, dvars, proc, exitCode, production,
                   publisherReady, wjobs>>

\* await Promise.allSettled(duplicatedConnections.map(c => c.quit()))
QuitDuplicated ==
    /\ proc = "closing"
    /\ closing = {}
    /\ closedOrder' = Append(closedOrder, "duplicated")
    /\ proc' = "quitPrimary"
    /\ UNCHANGED <<entry, evars, lvars, jvars, pvars, dvars, exitCode, production, conn,
                   publisherReady, listeners, wjobs, closing>>

\* await redis.quit(); process.exit(0)
QuitPrimary ==
    /\ proc = "quitPrimary"
    /\ closedOrder' = Append(closedOrder, "primary")
    /\ proc' = "exited" /\ exitCode' = 0
    /\ UNCHANGED <<entry, evars, lvars, jvars, pvars, dvars, production, conn,
                   publisherReady, listeners, wjobs, closing>>

ExecutorIdle ==
    /\ commands = <<>> /\ results = <<>> /\ sandboxLog = <<>> /\ cmdFailed = <<>>
    /\ epc = "idle"

InitLoop ==
    /\ entry = "loop"
    /\ ExecutorIdle
    /\ JobIdle
    /\ ProjectIdle
    /\ DatabaseIdle
    /\ WorkerIdle
    /\ \E cap \in (0..MaxCap) \cup {Infinity} : LoopEntered(cap)

NextLoop ==
    \/ LoopWhile
    \/ LoopLLMThrows
    \/ LoopLLMResponds
    \/ ExecuteAgentCommand
    \/ LoopAfterCommands
    \/ LoopTrackAndReturn

SpecLoop == InitLoop /\ [][NextLoop]_vars

InitCmd ==
    /\ entry = "cmd"
    /\ commands \in SeqsUpTo(SampleCommands, MaxCmds)
    /\ results = <<>> /\ sandboxLog = <<>> /\ cmdFailed = <<>>
    /\ epc = "run"
    /\ LoopIdle
    /\ JobIdle
    /\ ProjectIdle
    /\ DatabaseIdle
    /\ WorkerIdle

NextCmd == ExecuteAgentCommand \/ ExecuteAgentCommandsReturn

SpecCmd == InitCmd /\ [][NextCmd]_vars

\* deliveries of the creation job for one projectId
InitProject ==
    /\ entry = "project"
    /\ ExecutorIdle
    /\ LoopIdle
    /\ JobIdle
    /\ ProjectIdle
    /\ DatabaseIdle
    /\ WorkerIdle

NextProject ==
    \/ ProjectBegin
    \/ ProvisionAndCreateTables
    \/ ProjectContainerAndLoop
    \/ PushToGitHubDeterministic
    \/ ProjectStoreCredentials
    \/ ProjectCommit
    \/ ProjectSuccess
    \/ ProjectCatch

SpecProject == InitProject /\ [][NextProject]_vars

\* one project, its database reached through either pathway
InitDatabase ==
    /\ entry = "database"
    /\ LoopIdle /\ ExecutorIdle /\ JobIdle /\ ProjectIdle /\ WorkerIdle
    /\ projectId \in ProjectIds
    /\ schemaTables \in SeqsUpTo(TableNames, MaxTables)
    /\ dpc = "idle" /\ dcalls = 0 /\ dbName = <<>>
    /\ clusterDatabases = {} /\ outerTx = "none" /\ outerRows = <<>> /\ catalog = <<>>
    /\ projectTx = "none" /\ pendingTables = <<>> /\ projectTables = <<>>
    /\ checkedOut = 0 /\ openPools = 0 /\ attempts = 0 /\ derror = "none" /\ surfaced = <<>>

NextDatabase ==
    \/ ProvisionStart \/ ProvisionCreateDatabase \/ ProvisionInsertDatabase
    \/ ProvisionConnect \/ ProvisionCreateTable \/ ProvisionRecordQuery \/ ProvisionCommit
    \/ ProjectDbRollback \/ ProjectDbFinally \/ ProvisionTrack \/ ProvisionWrap
    \/ CallerCommit \/ CallerRollback
    \/ DevStart \/ DevLookup \/ DevCreateDatabase \/ DevConnect \/ DevQuery \/ DevCommit

SpecDatabase == InitDatabase /\ [][NextDatabase]_vars

\* the worker process from its start to its exit
InitWorker ==
    /\ entry = "worker"
    /\ LoopIdle /\ ExecutorIdle /\ JobIdle /\ ProjectIdle /\ DatabaseIdle
    /\ proc = "starting" /\ exitCode = 0 - 1
    /\ production \in BOOL
    /\ conn = "connecting" /\ publisherReady = "pending" /\ listeners = TRUE
    /\ wjobs = [j \in WorkerJobs |-> QueuedJob]
    /\ closing = {} /\ closedOrder = <<>>

NextWorker ==
    \/ PublisherError \/ PublisherReady \/ PublisherDrop \/ StartWorker
    \/ JobStart \/ JobPublishProgress \/ JobPublishTerminal
    \/ Signal \/ ClearQueue \/ CloseAll \/ CloseWorker \/ CloseQueueEvents \/ ClosePubSub
    \/ QuitDuplicated \/ QuitPrimary

SpecWorker == InitWorker /\ [][NextWorker]_vars

\* one job delivered to the worker
Init ==
    /\ entry = "job"
    /\ ExecutorIdle
    /\ LoopIdle
    /\ jobName \in JobNames
    /\ shouldRedeploy \in (IF jobName = "projectModificationJob" THEN BOOL ELSE {TRUE})
    /\ projectDeployments \in (IF jobName = "sync-flyio-secrets" THEN SUBSET DeploymentStatuses
                                ELSE {{}})
    /\ pc = "dispatch" /\ stream = <<>>
    /\ tx = "none" /\ txRows = {} /\ faults = NoFaults
    /\ authInfo = FALSE /\ paymentInfo = FALSE /\ databaseInfo = FALSE
    /\ githubPushResult = FALSE /\ blueprintId = FALSE /\ containerId = FALSE
    /\ detectorFallbacks = 0 /\ gitExitCodes = <<>>
    /\ committedRows = {} /\ outcome = "running" /\ released = 0 /\ teardowns = 0
    /\ ProjectIdle
    /\ DatabaseIdle
    /\ WorkerIdle

Next ==
    \/ Dispatch
    \/ LogMCPRequest
    \/ PoolConnect
    \/ Begin
    \/ CreationStart
    \/ CreationDetectAuth
    \/ CreationDetectPayment
    \/ CreationDetectDatabase
    \/ CreationDesignSchema
    \/ CreationProvisionDatabase
    \/ CreationContainer
    \/ CreationIntegrationSpecs
    \/ CreationTrackCreated
    \/ CreationStartLoop
    \/ CreationAfterLoop
    \/ CreationDeployFiles
    \/ CreationDeploymentRow
    \/ CreationTrackEndpoints
    \/ CreationPush
    \/ CreationBlueprint
    \/ CreationStoreCredentials
    \/ CreationCommit
    \/ CreationPublishBlueprint
    \/ CreationPublishSuccess
    \/ CreationDeploymentTriggered
    \/ ModificationSandbox
    \/ ModificationRepo
    \/ ModificationClone
    \/ ModificationContext
    \/ ModificationStartLoop
    \/ ModificationAfterLoop
    \/ ModificationTables
    \/ ModificationGit
    \/ ModificationBlueprint
    \/ ModificationTrackPush
    \/ ModificationTrackChange
    \/ ModificationDeploy
    \/ ModificationSession
    \/ ModificationCommit
    \/ ModificationPublishSuccess
    \/ SyncLookup
    \/ SyncSandbox
    \/ SyncSetSecret
    \/ SyncSuccessRow
    \/ SyncFailureRow
    \/ SyncTeardown
    \/ SyncCommit
    \/ SyncRollback
    \/ SyncCatch
    \/ HandlerReturn
    \/ HandlerCatch
    \/ HandlerPublishError
    \/ LoopWhile
    \/ LoopLLMThrows
    \/ LoopLLMResponds
    \/ ExecuteAgentCommand
    \/ LoopAfterCommands
    \/ LoopTrackAndReturn

Spec == Init /\ [][Next]_vars

\* ------------------------------------------------------------------------
\* Properties
\* ------------------------------------------------------------------------
PipelineJobs == {"initialProjectCreationJob", "projectModificationJob"}

\* C1: once the processor has returned or thrown, exactly one message with
\* complete = true has been published on the job's stream, for every job name
\* and every outcome of every external call.
C1_ExactlyOneTerminal ==
    outcome # "running" => Cardinality(Terminals(stream)) = 1

\* C2: in the creation and modification pipelines every terminal success message
\* is published in a state where the outer transaction has been committed.
C2_SuccessOnlyAfterCommit ==
    jobName \in PipelineJobs => \A i \in Successes(stream) : stream[i].tx = "committed"

\* C3: when a creation or modification job ends in failure (the processor throws
\* or a terminal error was published), no Activity, Generated-Query,
\* Project-Database, Source-Repo, Deployment, Blueprint or Credential row written
\* by the job is committed.
C3_NoRowsAfterFailure ==
    (jobName \in PipelineJobs /\ (outcome = "rejected" \/ Errors(stream) # {}))
        => \A r \in committedRows : r.table \notin DomainTables

\* C4: for creation and modification jobs the processor rejects exactly when a
\* terminal error was published after a ROLLBACK, resolves exactly when a terminal
\* success was published, and never rejects after publishing terminal success.
C4_QueueAgreesWithStream ==
    (jobName \in PipelineJobs /\ outcome # "running") =>
        /\ (outcome = "rejected") <=> (\E i \in Errors(stream) : stream[i].tx = "rolledback")
        /\ (outcome = "resolved") <=> (Successes(stream) # {})
        /\ ~(outcome = "rejected" /\ Successes(stream) # {})

\* C5: every invocation of runAgenticLoop has written exactly one
\* 'agentic-container-execution' cost row when it ends, however it ends, and
\* never holds more than one.
C5_OneCostRow ==
    /\ Len(costRows) <= 1
    /\ \A i \in 1..Len(costRows) : costRows[i].messageType = "agentic-container-execution"
    /\ lpc \in {"returned", "threw"} => Len(costRows) = 1

\* C6: when a single activity-ledger insert is the only external call that fails,
\* the job still commits its outer transaction, publishes terminal success and
\* resolves.
C6_LedgerFailureHarmless ==
    (outcome # "running" /\ faults = [NoFaults EXCEPT !.activity = 1]) =>
        /\ outcome = "resolved"
        /\ tx = "committed"
        /\ jobName \in PipelineJobs => Successes(stream) # {}

\* C7: a response that JSON.parse rejects is sanitized once and parsed again.  When
\* the second parse succeeds the iteration goes on with that parsed response, as it
\* does after a direct parse.  When it fails too, no command is executed and no
\* modification is recorded, one corrective user turn is appended, the iteration
\* counter keeps the value it was advanced to for this call, control returns to
\* the loop condition without raising, and the next turn of the loop calls the LLM.
C7_ParseRecovery ==
    [][ /\ (lpc = "llm" /\ lpc' # "threw") =>
             LET text == resultText'
                 direct == JSONParse(text)
                 retry == JSONParse(Sanitize(text))
             IN IF direct.ok \/ retry.ok
                THEN /\ agentResponse' = (IF direct.ok THEN direct ELSE retry)
                     /\ commands' = agentResponse'.commands
                     /\ lpc' = "exec" /\ epc' = "run"
                     /\ conversationHistory' = Append(conversationHistory, Turn("assistant", text))
                ELSE /\ lpc' = "while"
                     /\ UNCHANGED <<evars, filesModified, dbQueries, iteration>>
                     /\ iteration = llmCalls'
                     /\ conversationHistory' = Append(conversationHistory, ErrorTurn)
        /\ (lpc = "while" /\ lastParse = "fallback" /\ iteration < maxIterations) =>
             (lpc' = "llm" /\ iteration' = iteration + 1)
      ]_vars

\* a second LLM call is about to be made after a response that stayed unparseable
C7_Witness ==
    /\ lastParse = "fallback" /\ lpc = "llm" /\ iteration = 2
    /\ conversationHistory = <<SystemTurn, RequestTurn, ErrorTurn>>

Increasing(log) == \A i \in 1..Len(log), j \in 1..Len(log) : i < j => log[i] < log[j]

\* C8: executeAgentCommands returns one result per command, in command order;
\* the sandbox sees the commands in declared order, each at most once; a command
\* whose operation failed is reported {success: false, error} at its position and
\* the commands after it are still attempted.
C8_ResultsFaithful ==
    epc = "done" =>
        /\ Len(results) = Len(commands)
        /\ Len(cmdFailed) = Len(commands)
        /\ \A i \in 1..Len(results) :
             /\ results[i].pos = i
             /\ results[i].type = commands[i].type
             /\ cmdFailed[i] => (~results[i].success /\ results[i].error)
        /\ Increasing(sandboxLog)

\* C9: the success flag runAgenticLoop returns is true exactly when the loop was
\* left because a response had taskComplete = true, for every maxIterations.
C9_SuccessIffComplete ==
    lpc = "returned" => (loopResult.success <=> sawComplete)

\* C10: a loop makes at most maxIterations LLM calls, returns success = false when
\* no response could be parsed, and every invocation, those of the creation and
\* modification pipelines included, runs under a finite maxIterations.
C10_FiniteCap ==
    /\ llmCalls <= maxIterations
    /\ (lpc = "returned" /\ \A i \in 1..Len(conversationHistory) :
                               conversationHistory[i].role # "assistant")
          => ~loopResult.success
    /\ lpc # "idle" => maxIterations < Infinity

\* C11: in every creation and modification job, for every combination of
\* detector results, the progress values passed to publishProgress never
\* decrease from the first progress message up to the terminal message.
C11_ProgressNonDecreasing ==
    jobName \in PipelineJobs =>
        \A i \in 1..Len(stream), j \in 1..Len(stream) :
            (i < j /\ stream[i].type = "progress" /\ stream[j].type = "progress")
                => stream[i].progress <= stream[j].progress

\* C12: the token totals written to the loop's aggregated cost entry are the sums
\* of usage.inputTokens and usage.outputTokens over every LLM call of the
\* invocation that returned a response, whether or not the response parsed:
\* each answered call adds its usage to the running totals, and the cost entry
\* written after the loop carries those totals.
C12_TokensCountEveryCall ==
    [][/\ (lpc = "llm" /\ lpc' # "threw") =>
            /\ totalInputTokens' = totalInputTokens + InputTokensOf(resultText')
            /\ totalOutputTokens' = totalOutputTokens + OutputTokensOf(resultText')
       /\ (lpc = "track" /\ lpc' = "returned") =>
            /\ costRows'[Len(costRows')].inputTokens = totalInputTokens
            /\ costRows'[Len(costRows')].outputTokens = totalOutputTokens]_vars

\* C13: whatever creation jobs for one projectId have run, in sequence or
\* concurrently, the control database holds at most one committed
\* project_databases row with is_active = true for the project, and exactly one
\* once a creation job that needed a database has succeeded.
C13_OneActiveDatabase ==
    /\ controlDb.project_databases <= 1
    /\ \A d \in Deliveries :
         (deliveries[d].outcome = "resolved" /\ deliveries[d].needsDatabase)
             => controlDb.project_databases = 1

\* C14: whatever creation jobs for one projectId have run, each in a fresh
\* sandbox and the source host answering "already exists" from the second job
\* on, the control database holds at most one committed project_github_repos
\* row with is_active = true for the project.
C14_OneActiveRepo == controlDb.project_github_repos <= 1

\* a job that was told the repository already exists has succeeded, and the
\* project has its one active repository row
C14_Witness ==
    \E d \in Deliveries :
        /\ deliveries[d].repoReply = "exists"
        /\ deliveries[d].outcome = "resolved"
        /\ \E e \in Deliveries : e # d /\ deliveries[e].repoReply = "created"
        /\ controlDb.project_github_repos = 1

Blueprints(msgs) == {i \in 1..Len(msgs) : msgs[i].type = "apiBlueprint"}

\* C16: in every execution of a creation or modification job at most one
\* apiBlueprint typed message is published on the stream, and when one is
\* published it comes before the terminal message of the job.
C16_BlueprintOnceBeforeTerminal ==
    jobName \in PipelineJobs =>
        /\ Cardinality(Blueprints(stream)) <= 1
        /\ \A b \in Blueprints(stream), t \in Terminals(stream) : b < t

\* a finished job whose stream holds a blueprint message and a terminal message
C16_Witness ==
    /\ jobName \in PipelineJobs
    /\ pc = "end"
    /\ Blueprints(stream) # {}
    /\ Successes(stream) # {}

\* C17: for each delivery the dispatcher starts the processor registered for
\* job.name, once; a job whose name has no registered processor starts none,
\* touches nothing and is rejected; and no step ever takes a delivery back to the
\* dispatcher, so no processor is invoked a second time for it.
C17_DispatchOnce ==
    [][/\ (pc # "dispatch") => (pc' # "dispatch")
       /\ (pc = "dispatch" /\ jobName \in Registry) =>
            (pc' = ProcessorEntry(jobName) /\ outcome' = "running")
       /\ (pc = "dispatch" /\ jobName \notin Registry) =>
            /\ outcome' = "rejected"
            /\ pc' = "end"
            /\ UNCHANGED <<stream, tx, txRows, committedRows, released, lvars>>
       /\ (pc' = ProcessorEntry(jobName) /\ pc # pc' /\ jobName \in Registry)
            => pc = "dispatch"]_vars

\* C18: a failure of the INSERT made by trackMessageCost at the end of the
\* agentic loop is logged and swallowed: whatever that INSERT does,
\* runAgenticLoop gets past its cost-tracking statement and returns its result,
\* so the enclosing job is never failed by it.
C18_CostFailureSwallowed ==
    [][(lpc = "track" /\ lpc' # "track") => (lpc' = "returned" /\ loopResult' # NoResult)]_vars

\* positions of a secret-sync job at which a sandbox exists or the secret has
\* been or is being set
SyncWorking ==
    {"s_sandbox", "s_secret", "s_successrow", "s_teardown_success", "commit", "return"}

TeardownPcs == {"s_teardown_success", "s_teardown_failure", "s_teardown_thrown"}

\* positions of a secret-sync job once syncCredentialsToFlyio has been left
SyncLeft == {"commit", "s_rollback", "catch", "return", "end"}

\* C20: a sandbox provisioned by a sync-flyio-secrets job is torn down exactly
\* once before syncCredentialsToFlyio is left, on every path (secret set, install
\* or secret command failed, activity insert failed); nothing else calls the
\* teardown; and where the job goes after the teardown does not depend on
\* whether the teardown succeeded.
C20_TeardownOnce ==
    [][(jobName = "sync-flyio-secrets") =>
        /\ (pc' \in SyncLeft) => (teardowns' = IF containerId' THEN 1 ELSE 0)
        /\ (pc \notin TeardownPcs) => (teardowns' = teardowns)
        /\ (pc = "s_teardown_success") => (pc' = "commit")
        /\ (pc = "s_teardown_failure") => (pc' = "s_rollback")
        /\ (pc = "s_teardown_thrown") => (pc' = "catch")]_vars

\* a job whose sandbox teardown failed, and nothing else, has resolved
C20_Witness ==
    /\ jobName = "sync-flyio-secrets"
    /\ containerId
    /\ teardowns = 1
    /\ faults = [NoFaults EXCEPT !.other = 1]
    /\ outcome = "resolved"

\* ------------------------------------------------------------------------
\* C21: an intent detector never throws.  When its LLM call fails or the reply
\* is not usable JSON it returns "not needed" with zero token usage; the creation
\* handler then goes on to the next phase without publishing, without touching
\* the outer transaction and without entering schema design or provisioning;
\* a job whose three detectors all fell back sets up no database and no
\* integration, and a job in which nothing but detectors failed resolves.
C21_SetupProgress == {8, 9, 12, 15, 18, 25, 28}

C21_DetectorFailureIsNoNeed ==
    [][/\ \A reply \in DetectorReplies :
            DetectorThrew(reply) =>
              /\ detectAuthenticationNeed(reply) = [needsAuth |-> FALSE, usage |-> ZeroUsage]
              /\ detectPaymentNeed(reply) = [needsPayments |-> FALSE, usage |-> ZeroUsage]
              /\ detectDatabaseNeed(reply) = [needsDatabase |-> FALSE, usage |-> ZeroUsage]
       /\ detectorFallbacks' > detectorFallbacks =>
            /\ stream' = stream /\ tx' = tx /\ txRows' = txRows /\ faults' = faults
            /\ pc = "c_auth" => ~authInfo' /\ pc' = "c_payment"
            /\ pc = "c_payment" => ~paymentInfo' /\ pc' = "c_database"
            /\ pc = "c_database" => ~databaseInfo' /\ pc' = "c_container"
       /\ detectorFallbacks' = 3 =>
            /\ \A i \in DOMAIN stream' : stream'[i].progress \notin C21_SetupProgress
            /\ \A row \in txRows' \cup committedRows' :
                 row.table \notin {"project_databases", "generated_queries"}
       /\ (pc' = "end" /\ detectorFallbacks' > 0 /\ faults' = NoFaults) =>
            outcome' = "resolved"]_vars

\* all three detectors fell back and the job ended with terminal success
C21_Witness ==
    /\ jobName = "initialProjectCreationJob"
    /\ detectorFallbacks = 3
    /\ pc = "end" /\ outcome = "resolved"
    /\ \E i \in DOMAIN stream : stream[i].complete /\ ~stream[i].isError

\* ------------------------------------------------------------------------
\* the db_query commands the agent has emitted so far, oldest first: those of
\* every assistant turn of the conversation, as the loop parsed that turn
RECURSIVE EmittedQueries(_)
EmittedQueries(history) ==
    IF history = <<>> THEN <<>>
    ELSE LET last == history[Len(history)]
             emitted == IF last.role = "assistant"
                        THEN SelectSeq(ParseResponse(last.content).value.commands,
                                       LAMBDA cmd : cmd.type = "db_query")
                        ELSE <<>>
         IN EmittedQueries(SubSeq(history, 1, Len(history) - 1))
              \o [i \in 1..Len(emitted) |-> [type |-> emitted[i].queryType]]

\* C22: a db_query command is only stored while the agentic loop runs.  The
\* executor step for it makes no sandbox call, writes no cost row and reports
\* stored and successful; and whenever the loop is between iterations, and when
\* it returns, dbQueries holds every db_query emitted so far exactly once, in
\* emission order.
C22_QueriesStoredInOrder ==
    [][/\ (epc = "run" /\ Len(results') = Len(results) + 1
             /\ commands[Len(results) + 1].type = "db_query") =>
            /\ sandboxLog' = sandboxLog
            /\ costRows' = costRows
            /\ results'[Len(results')].success /\ results'[Len(results')].stored
            /\ ~cmdFailed'[Len(cmdFailed')]
       /\ lpc' \in {"while", "llm", "track", "returned"} =>
            dbQueries' = EmittedQueries(conversationHistory')]_vars

\* the loop returned three queries gathered over two iterations
C22_Witness ==
    /\ lpc = "returned"
    /\ dbQueries = <<[type |-> "CREATE TABLE"], [type |-> "ALTER TABLE"], [type |-> "CREATE TABLE"]>>

\* ------------------------------------------------------------------------
\* C23: a creation job that published terminal success, with no external call
\* having failed, pushed the project to the source host before that message and
\* has a committed active Source-Repo row and a committed Deployment row with
\* status 'pending', whatever the agent did (a loop that wrote no files included).
C23_SuccessImpliesPushed ==
    (jobName = "initialProjectCreationJob" /\ faults = NoFaults) =>
      \A i \in Successes(stream) :
         /\ stream[i].tx = "committed"
         /\ githubPushResult
         /\ Row("project_github_repos", "active") \in committedRows
         /\ Row("project_deployments", "pending") \in committedRows

\* ------------------------------------------------------------------------
\* C24: whichever pathway runs for a projectId, the database name it works with
\* is 'turbobackend_proj_' followed by the projectId lowercased with hyphens
\* replaced by underscores: the name that exists on the cluster, so that the
\* database one pathway created is the one the other connects to.
C24_SameDatabaseName ==
    dbName # <<>> =>
      /\ dbName = <<NamePrefix>> \o ToLowerCase(ReplaceHyphens(projectId))
      /\ (dpc \in {"p_connect", "d_connect"}) => dbName \in clusterDatabases

\* ------------------------------------------------------------------------
\* the tables / rows that belong to the call being run (or last run)
TablesOfCall(tables) == SelectSeq(tables, LAMBDA t : t.call = dcalls)
RowsOfCall(rows, tableName) ==
    SelectSeq(rows, LAMBDA row : row.call = dcalls /\ row.table = tableName)

\* the provisioner threw because a createQuery failed (the ROLLBACK that follows
\* may fail too, and then its error is the one thrown)
CreateQueryFailed ==
    /\ Len(surfaced) = 2
    /\ surfaced[2] \in {"createQuery failed", "ROLLBACK failed after createQuery failed"}

\* C29: provisionAndCreateTables applies the designed tables atomically.  When it
\* returns, every createQuery of the list was executed in list order and is
\* committed in the project database.  When a createQuery fails, no table of the
\* call remains in the project database, its connection is released and closed,
\* the error is thrown to the caller, and once the caller has rolled back no
\* Project-Database or Generated-Query row of the call is committed.
C29_TablesAtomic ==
    /\ dpc = "p_returned" =>
         /\ projectTx = "committed" /\ pendingTables = <<>>
         /\ [i \in 1..Len(TablesOfCall(projectTables)) |-> TablesOfCall(projectTables)[i].name]
              = schemaTables
    /\ (dpc \in {"p_threw", "idle"} /\ CreateQueryFailed) =>
         /\ TablesOfCall(projectTables) = <<>> /\ pendingTables = <<>>
         /\ projectTx = "rolledback"
         /\ checkedOut = 0 /\ openPools = 0
         /\ surfaced[1] = "Database provisioning failed: "
    /\ (dpc = "idle" /\ CreateQueryFailed) =>
         /\ outerTx = "rolledback" /\ outerRows = <<>>
         /\ RowsOfCall(catalog, "project_databases") = <<>>
         /\ RowsOfCall(catalog, "generated_queries") = <<>>

\* the second createQuery failed after the first had succeeded and been recorded,
\* and the caller has rolled back
C29_Witness ==
    /\ dpc = "idle" /\ CreateQueryFailed
    /\ attempts = 2
    /\ outerTx = "rolledback"

\* C30: in the provisioner, right after each createQuery attempt has been
\* handled, the outer connection holds one Generated-Query row of this call per
\* statement attempted so far: 'executed' for an attempt that succeeded,
\* 'failed' for one that failed.
C30_OneRowPerAttempt ==
    (dpc \in {"p_tables", "p_rollback"} /\ derror \in {"none", "createQuery failed"}) =>
      /\ Len(RowsOfCall(outerRows, "generated_queries")) = attempts
      /\ derror = "createQuery failed" =>
           RowsOfCall(outerRows, "generated_queries")[attempts].status = "failed"
      /\ \A i \in 1..(IF derror = "none" THEN attempts ELSE attempts - 1) :
           RowsOfCall(outerRows, "generated_queries")[i].status = "executed"

\* ------------------------------------------------------------------------
\* C25: a failure to publish a non-terminal message (progress, apiBlueprint,
\* deployment_triggered) does not fail the pipeline: the step in which such a
\* publish is the only call that failed does not enter the handler's catch block.
C25_TerminalPublishPcs == {"c_success", "m_success", "publishError"}

C25_PublishFailureSwallowed ==
    [][(/\ pc \notin C25_TerminalPublishPcs
        /\ faults' = [faults EXCEPT !.publish = @ + 1])
       => pc' # "catch"]_vars

\* ------------------------------------------------------------------------
\* C26: a job holds one pipeline client from pool.connect until it leaves the
\* handler, and releases it exactly once on every exit path: nothing is released
\* while the pipeline runs, a job that ends after the client was acquired has
\* released it once (also when ROLLBACK itself threw), and a job that ended
\* before pool.connect resolved has released nothing.
C26_BeforeAcquire == {"dispatch", "logRequest", "connect"}

C26_ReleasedExactlyOnce ==
    [][/\ pc' # "end" => released' = 0
       /\ (pc' = "end" /\ pc \in C26_BeforeAcquire) => released' = 0
       /\ (pc' = "end" /\ pc \notin C26_BeforeAcquire) => released' = 1]_vars

\* a creation job whose ROLLBACK rejected: the transaction was never ended by
\* the handler, and the client was released once
C26_Witness ==
    /\ jobName = "initialProjectCreationJob"
    /\ pc = "end" /\ outcome = "rejected"
    /\ tx \in {"open", "aborted"}
    /\ released = 1

\* ------------------------------------------------------------------------
\* C27: on a job's streamId the complete=true message is the last message the
\* worker publishes: nothing, neither a progress update nor a typed message,
\* follows a terminal message.
C27_TerminalIsLast ==
    \A i \in Terminals(stream) : i = Len(stream)

\* ------------------------------------------------------------------------
\* C28: when a modification job's loop returned CREATE TABLE queries and the job
\* published terminal success, each of those queries has been executed against
\* the project's database (it holds one table per query) before that message;
\* and a job whose project has no active database publishes no success.
C28_CreateTablesExecuted ==
    jobName = "projectModificationJob" =>
      /\ Successes(stream) # {} =>
           Len(projectTables) + Len(pendingTables) >= Cardinality(CreateTableQueries(dbQueries))
      /\ faults.missing > 0 => Successes(stream) = {}

\* ------------------------------------------------------------------------
\* C31: every control-database write of a job is made inside the pipeline
\* client's transaction, so once the job has rolled back nothing it wrote is
\* committed: no request-log row, no activity or domain row, no Message-Cost row.
C31_RollbackLeavesNothing ==
    (pc = "end" /\ tx = "rolledback") =>
      /\ committedRows = {}
      /\ costRows = <<>>

\* C32: no publish is delivered before the publisher's ready barrier has
\* resolved, and the barrier is never left rejected by a connection 'error'
\* that precedes the first 'ready' (so that publishes issued once the
\* connection is ready are delivered).
Delivered(j) ==
    \/ wjobs'[j].progress > wjobs[j].progress
    \/ wjobs'[j].terminal = "delivered" /\ wjobs[j].terminal # "delivered"

C32_ReadyBarrier ==
    [][ /\ \A j \in WorkerJobs : Delivered(j) => publisherReady = "resolved"
        /\ publisherReady' # "rejected" ]_vars

\* C33: a job that is running when the signal arrives still gets its terminal
\* message delivered (the publisher is closed only after the running jobs have
\* drained); the duplicated connections are closed after the worker, the queue
\* events and the publisher, the primary connection last; waiting jobs are
\* cleared only outside production.
Before(a, b) ==
    \A i, k \in 1..Len(closedOrder) :
       (closedOrder[i] = a /\ closedOrder[k] = b) => i < k

Closed == {closedOrder[i] : i \in 1..Len(closedOrder)}

C33_PublisherOutlivesJobs ==
    /\ \A j \in WorkerJobs : wjobs[j].terminal # "rejected"
    /\ conn = "closed" /\ exitCode # 1 => \A j \in WorkerJobs : wjobs[j].state # "active"
    /\ \A c \in {"worker", "queueEvents", "publisher"} :
          /\ Before(c, "duplicated")
          /\ "duplicated" \in Closed => c \in Closed
    /\ Before("duplicated", "primary")
    /\ "primary" \in Closed => "duplicated" \in Closed
    /\ (\E j \in WorkerJobs : wjobs[j].state = "cleared") => ~production

\* C34: whatever route files the repository held before the job, the activity
\* type the modification pipeline records is endpoints_added when the agent
\* wrote a route file that was not among them, endpoints_modified when it
\* wrote only route files that were, business_logic_modified when it wrote no
\* route file.
RoutesWritten(files) == {files[i].path : i \in {k \in 1..Len(files) : files[k].type = "route"}}

ExpectedModificationType(files, existing) ==
    IF RoutesWritten(files) \ existing # {} THEN "endpoints_added"
    ELSE IF RoutesWritten(files) # {} THEN "endpoints_modified"
    ELSE "business_logic_modified"

C34_ModificationType ==
    [][(pc = "m_trackmod" /\ txRows' # txRows) =>
         \A existing \in SUBSET {RoutePath} :
            txRows' \ txRows = {Activity(ExpectedModificationType(filesModified, existing))}]_vars

\* C35: at every LLM call of the agentic loop the conversation is one system
\* turn followed by strictly alternating user and assistant turns that start
\* and end with a user turn (so every response was appended as an assistant
\* turn before the next user turn).
Alternating(history) ==
    /\ Len(history) >= 2
    /\ history[1].role = "system"
    /\ \A i \in 2..Len(history) :
          history[i].role = IF i % 2 = 0 THEN "user" ELSE "assistant"
    /\ history[Len(history)].role = "user"

C35_TurnsAlternate == (lpc = "llm") => Alternating(conversationHistory)

\* C36: when runAgenticLoop left its loop on a response with taskComplete = true
\* that carried an apiBlueprint, the apiBlueprint it returns is that one, also
\* when the response was parsed after sanitization.
C36_BlueprintReturned ==
    (lpc = "returned" /\ sawComplete /\ agentResponse.taskComplete
       /\ agentResponse.apiBlueprint # FALSE)
      => loopResult.apiBlueprint = agentResponse.apiBlueprint

\* C37: a sync-flyio-secrets job that resolves has committed a
\* flyio-secret-sync row with status 'success', and the 'failed' row written
\* when the sync failed after the deployment lookup is not discarded by the
\* processor's transaction handling: it leaves the open transaction only by
\* being committed.
SyncSucceededRow == Activity("flyio-secret-sync success")

SyncFailedRow == Activity("flyio-secret-sync failed")

C37_SyncOutcomeRecorded ==
    [][(jobName = "sync-flyio-secrets") =>
        /\ (pc' = "end" /\ outcome' = "resolved") => SyncSucceededRow \in committedRows'
        /\ (SyncFailedRow \in txRows /\ SyncFailedRow \notin txRows')
              => SyncFailedRow \in committedRows']_vars

\* C38: a modification job publishes terminal success only if the commit, the
\* feature-branch push, the checkout of main, the merge and the push of main
\* each returned exit code 0; a job in which one of them returned a non-zero
\* code, and nothing else went wrong, ends with a terminal error.
TerminalSuccess == \E i \in DOMAIN stream : stream[i].complete /\ ~stream[i].isError

TerminalError == \E i \in DOMAIN stream : stream[i].complete /\ stream[i].isError

C38_GitExitCodesChecked ==
    (jobName = "projectModificationJob") =>
       /\ TerminalSuccess => gitExitCodes = [i \in 1..Len(GitCommands) |-> 0]
       /\ (pc = "end" /\ faults = NoFaults /\ \E i \in DOMAIN gitExitCodes : gitExitCodes[i] # 0)
             => TerminalError

\* C39: a creation job delivered again for the same projectId after every
\* earlier attempt has failed, and finding the cluster database of an earlier
\* attempt, is not failed by its provisioning step when the create reports that
\* the database already exists.
Redelivered(d) ==
    /\ d > 1
    /\ \A e \in 1..(d - 1) : deliveries[e].pc = "end" /\ deliveries[e].outcome = "rejected"

C39_RedeliverySucceeds ==
    [][\A d \in Deliveries :
         (/\ Redelivered(d)
          /\ clusterDatabase
          /\ deliveries[d].pc = "database"
          /\ deliveries'[d].needsDatabase)
           => deliveries'[d].pc # "catch"]_vars

====
